---- MODULE Spec2Model ----
(***************************************************************************)
(* ValutaTrade Hub: the rate aggregation and resolution core.              *)
(*                                                                         *)
(*   parser_service/updater.py   RatesUpdater.run_update                   *)
(*   parser_service/storage.py   RatesStorage (validate_rate, history)     *)
(*   parser_service/api_clients.py  the two Quote Sources                  *)
(*   parser_service/scheduler.py RatesScheduler                            *)
(*   core/usecases.py            RateService.get_rate                      *)
(*   core/utils.py, core/currencies.py  currency code validation           *)
(*                                                                         *)
(* Python values are records [k, n, d, e]: k is the Python type tag; a     *)
(* finite number is the exact value (n / d) * 10^e in canonical form.      *)
(* Strings that the code compares or orders (timestamps) are sequences of  *)
(* character ranks.                                                        *)
(***************************************************************************)
EXTENDS Integers, Sequences, FiniteSets, TLC

VARIABLES
    snapshot,   \* rates.json: [pairs |-> pair key -> quote, last_refresh]
    history,    \* exchange_rates.json: sequence of history records
    stats,      \* RatesUpdater.stats
    clock,      \* wall clock (advances with every update run)
    pre,        \* persisted state and stats at the start of the last run_update
    prevRun,    \* how the run_update call before the last one relates to the last
    lastRun,    \* the last run_update call (inputs and outcome)
    rateCall,   \* the last get_rate call (inputs and outcome)
    valCall,    \* the last validate_rate call (input and outcome)
    sched,      \* the RatesScheduler: its flags, its worker threads, the stop() in progress
    req,        \* the _make_request call in progress (attempts made, outcome)
    inflight    \* the run_update executions that overlap: caller -> what it loaded and did

vars == <<snapshot, history, stats, clock, pre, prevRun, lastRun, rateCall, valCall,
          sched, req, inflight>>

----------------------------------------------------------------------------
(* Bounds of the model                                                     *)

\* update runs explored from each initial state
MaxRuns == 2
\* largest number of pairs in an initial rates.json of the resolver specification
MaxInitPairs == 3
\* largest mantissa of the rates fed to validate_rate
MaxMant == 12
\* calls of RatesScheduler.start() explored, each of them starting a worker thread
MaxStarts == 2
\* scheduled updates the workers begin
MaxScheduled == 1

----------------------------------------------------------------------------
(* Python values                                                           *)

Val(k, n, d, e) == [k |-> k, n |-> n, d |-> d, e |-> e]

RECURSIVE GCD(_, _)
GCD(a, b) == IF b = 0 THEN a ELSE GCD(b, a % b)

AbsInt(x) == IF x < 0 THEN -x ELSE x

\* canonical form of (n / d) * 10^e, d > 0: gcd(n, d) = 1, d coprime to 10,
\* n not a multiple of 10; zero is (0, 1, 0)
RECURSIVE Canon(_, _, _)
Canon(n, d, e) ==
    IF n = 0 THEN <<0, 1, 0>>
    ELSE LET g == GCD(AbsInt(n), d) IN
         IF g > 1 THEN Canon(n \div g, d \div g, e)
         ELSE IF d % 2 = 0 THEN Canon(n * 5, d \div 2, e - 1)
         ELSE IF d % 5 = 0 THEN Canon(n * 2, d \div 5, e - 1)
         ELSE IF n % 10 = 0 THEN Canon(n \div 10, d, e + 1)
         ELSE <<n, d, e>>

\* a Python float or int holding (n / d) * 10^e
Num(n, d, e) == LET c == Canon(n, d, e) IN Val("num", c[1], c[2], c[3])

PyNone == Val("none", 0, 1, 0)
PyNaN == Val("nan", 0, 1, 0)
PyInf == Val("inf", 0, 1, 0)
PyNegInf == Val("ninf", 0, 1, 0)
PyStr == Val("str", 0, 1, 0)
PyTrue == Val("bool", 1, 1, 0)
PyFalse == Val("bool", 0, 1, 0)

\* bool is a subclass of int: True and False take part in arithmetic as 1 and 0
IsFinite(v) == v.k \in {"num", "bool"}

\* floor(x / 10^s), s >= 0
RECURSIVE FloorDivPow10(_, _)
FloorDivPow10(x, s) == IF s = 0 THEN x ELSE FloorDivPow10(x \div 10, s - 1)

RECURSIVE Pow10(_)
Pow10(s) == IF s = 0 THEN 1 ELSE 10 * Pow10(s - 1)

\* a < b for finite numbers: a.n * b.d * 10^a.e < b.n * a.d * 10^b.e
FiniteLess(a, b) ==
    LET L == a.n * b.d
        R == b.n * a.d
        s == a.e - b.e
    IN  IF s >= 0 THEN L <= FloorDivPow10(R - 1, s)
        ELSE ~(R <= FloorDivPow10(L, -s))

\* Python's a < b on floats and ints (every comparison with NaN is False)
PyLess(a, b) ==
    CASE a.k = "nan" \/ b.k = "nan" -> FALSE
      [] a.k = "ninf" -> b.k # "ninf"
      [] a.k = "inf" -> FALSE
      [] b.k = "inf" -> TRUE
      [] b.k = "ninf" -> FALSE
      [] OTHER -> FiniteLess(a, b)

PyGreater(a, b) == PyLess(b, a)

\* a * b, 1 / a, a - b, a / b and abs(a) on finite numbers
NumMul(a, b) == Num(a.n * b.n, a.d * b.d, a.e + b.e)

NumInv(a) == IF a.n > 0 THEN Num(a.d, a.n, -a.e) ELSE Num(-a.d, -a.n, -a.e)

NumSub(a, b) ==
    LET m == IF a.e < b.e THEN a.e ELSE b.e
    IN  Num(a.n * Pow10(a.e - m) * b.d - b.n * Pow10(b.e - m) * a.d, a.d * b.d, m)

NumDiv(a, b) == NumMul(a, NumInv(b))

NumAbs(a) == Val("num", AbsInt(a.n), a.d, a.e)

\* truth value of a Python object in `if x`
Truthy(v) ==
    CASE v.k = "none" -> FALSE
      [] v.k \in {"num", "bool"} -> v.n # 0
      [] OTHER -> TRUE

----------------------------------------------------------------------------
(* parser_service/config.py                                                *)

MIN_RATE_VALUE == Num(1, 1, -8)
MAX_RATE_VALUE == Num(1, 1, 9)

----------------------------------------------------------------------------
(* RatesStorage.validate_rate                                              *)

IsInstanceIntFloat(rate) == rate.k \in {"num", "bool", "nan", "inf", "ninf"}

validate_rate_ExclusiveBounds(rate) ==
    IF ~IsInstanceIntFloat(rate) THEN FALSE
    ELSE IF ~PyGreater(rate, MIN_RATE_VALUE) THEN FALSE
    ELSE IF ~PyLess(rate, MAX_RATE_VALUE) THEN FALSE
    ELSE IF rate.k \in {"nan", "inf", "ninf"} THEN FALSE
    ELSE TRUE

validate_rate(rate) ==
    IF ~IsInstanceIntFloat(rate) THEN FALSE
    ELSE IF PyLess(rate, MIN_RATE_VALUE) THEN FALSE
    ELSE IF PyGreater(rate, MAX_RATE_VALUE) THEN FALSE
    ELSE IF rate.k \in {"nan", "inf", "ninf"} THEN FALSE
    ELSE TRUE

----------------------------------------------------------------------------
(* Strings: currency codes and pair keys                                   *)

\* the registry of core/currencies.py (CurrencyRegistry._initialize_currencies)
RegisteredCurrencies ==
    {"USD", "EUR", "RUB", "GBP", "JPY", "CNY", "BTC", "ETH", "LTC", "XRP", "DOGE"}

\* parser_service/config.py
CRYPTO_CURRENCIES ==
    {"BTC", "ETH", "SOL", "BNB", "XRP", "ADA", "DOGE", "DOT", "MATIC", "LTC",
     "SHIB", "TRX", "AVAX", "LINK", "UNI"}

FIAT_CURRENCIES ==
    <<"EUR", "GBP", "JPY", "CNY", "RUB", "CHF", "CAD", "AUD", "NZD", "SGD",
      "HKD", "SEK", "NOK", "DKK", "PLN", "CZK", "HUF", "TRY", "MXN", "BRL">>

\* CoinGecko identifier -> currency code (the inverse of CRYPTO_ID_MAP)
id_to_code ==
    [i \in {"bitcoin", "ethereum", "solana", "binancecoin", "ripple", "cardano",
            "dogecoin", "polkadot", "matic-network", "litecoin", "shiba-inu",
            "tron", "avalanche-2", "chainlink", "uniswap"} |->
        CASE i = "bitcoin" -> "BTC" [] i = "ethereum" -> "ETH"
          [] i = "solana" -> "SOL" [] i = "binancecoin" -> "BNB"
          [] i = "ripple" -> "XRP" [] i = "cardano" -> "ADA"
          [] i = "dogecoin" -> "DOGE" [] i = "polkadot" -> "DOT"
          [] i = "matic-network" -> "MATIC" [] i = "litecoin" -> "LTC"
          [] i = "shiba-inu" -> "SHIB" [] i = "tron" -> "TRX"
          [] i = "avalanche-2" -> "AVAX" [] i = "chainlink" -> "LINK"
          [] OTHER -> "UNI"]

\* the currency codes that occur in pair keys
KeyCodes ==
    RegisteredCurrencies \cup CRYPTO_CURRENCIES
        \cup {FIAT_CURRENCIES[i] : i \in DOMAIN FIAT_CURRENCIES}

\* the strings a caller passes to get_rate as a currency code
CodeInputs == {"USD", "EUR", "BTC", "CHF", "X", "btc", "EUR ", "U$D"}

\* the codes asked for between update runs
HubCodeInputs == {"USD", "EUR", "BTC", "CHF"}

\* str.upper(), str.strip() and str.isalnum() on the strings of the model
Upper(s) == CASE s = "btc" -> "BTC" [] OTHER -> s

Strip(s) == CASE s = "EUR " -> "EUR" [] OTHER -> s

IsAlnum(s) == s \notin {"EUR ", "U$D", ""}

\* f"{from_currency}_{to_currency}"
PairKey(from, to) == from \o "_" \o to

\* pair_key.split("_", 1): currency codes hold no underscore, so the key splits
\* into the two codes it was joined from
KeyTriples == {<<PairKey(f, t), f, t>> : f \in KeyCodes, t \in KeyCodes}

SplitFrom(key) == (CHOOSE x \in KeyTriples : x[1] = key)[2]

SplitTo(key) == (CHOOSE x \in KeyTriples : x[1] = key)[3]

\* CurrencyRegistry.is_registered / currency_exists
currency_exists(code) == Upper(code) \in RegisteredCurrencies

\* validate_currency_code without the registry lookup of its last line
validate_currency_code_FormatOnly(code) ==
    LET c == Upper(Strip(code)) IN
    IF ~(2 <= Len(c) /\ Len(c) <= 5) THEN FALSE
    ELSE IF ~IsAlnum(c) THEN FALSE
    ELSE TRUE

\* core/utils.py validate_currency_code
validate_currency_code(code) ==
    LET c == Upper(Strip(code)) IN
    IF ~(2 <= Len(c) /\ Len(c) <= 5) THEN FALSE
    ELSE IF ~IsAlnum(c) THEN FALSE
    ELSE currency_exists(c)

----------------------------------------------------------------------------
(* Timestamps: strings, as sequences of character ranks                    *)

\* a < b in Python's string order
RECURSIVE StrLess(_, _)
StrLess(a, b) ==
    IF b = <<>> THEN FALSE
    ELSE IF a = <<>> THEN TRUE
    ELSE IF Head(a) # Head(b) THEN Head(a) < Head(b)
    ELSE StrLess(Tail(a), Tail(b))

\* max(a, b) on strings: the first argument unless the second is greater
StrMax(a, b) == IF StrLess(a, b) THEN b ELSE a

\* datetime.now(timezone.utc).isoformat(): two digits and the "+00:00" suffix
UtcIso(t) == <<t \div 10, t % 10, 0>>

\* get_current_datetime(): datetime.now().isoformat(), no offset suffix
get_current_datetime(t) == <<t \div 10, t % 10>>

\* timestamp.isoformat().replace("+00:00", "Z") of create_history_record
ZIso(t) == <<t \div 10, t % 10, 9>>

----------------------------------------------------------------------------
(* The Snapshot                                                            *)

Quote(rate, updated_at, source) ==
    [rate |-> rate, updated_at |-> updated_at, source |-> source]

EmptyDict == [x \in {} |-> x]

\* DatabaseManager.get_rates on a missing or unreadable rates.json
EmptySnapshot == [pairs |-> EmptyDict, last_refresh |-> <<>>]

\* dict.get(key, default)
DictGet(dict, key, default) == IF key \in DOMAIN dict THEN dict[key] ELSE default

\* dict[key] = value
DictSet(dict, key, value) ==
    [k \in DOMAIN dict \cup {key} |-> IF k = key THEN value ELSE dict[k]]

----------------------------------------------------------------------------
(* RateService.get_rate                                                    *)

Raise(error, a, b) == [kind |-> "raise", error |-> error, a |-> a, b |-> b]

Return(value) == [kind |-> "return", value |-> value]

\* a lookup step that does not apply
Miss == [kind |-> "miss"]

\* direct lookup: the stored quote, unmodified
DirectLookup(pairs, from_currency, to_currency) ==
    LET direct_key == PairKey(from_currency, to_currency)
    IN  IF direct_key \in DOMAIN pairs THEN Return(pairs[direct_key]) ELSE Miss

InverseLookup_NoInversion(pairs, from_currency, to_currency) ==
    LET reverse_key == PairKey(to_currency, from_currency)
    IN  IF reverse_key \notin DOMAIN pairs THEN Miss
        ELSE Return([rate |-> pairs[reverse_key].rate,
                     updated_at |-> pairs[reverse_key].updated_at])

\* inverse lookup: 1 / rate of the stored reverse pair (1 / 0.0 raises)
InverseLookup(pairs, from_currency, to_currency) ==
    LET reverse_key == PairKey(to_currency, from_currency)
    IN  IF reverse_key \notin DOMAIN pairs THEN Miss
        ELSE IF pairs[reverse_key].rate.n = 0
             THEN Raise("ZeroDivisionError", "", "")
             ELSE Return([rate |-> NumInv(pairs[reverse_key].rate),
                          updated_at |-> pairs[reverse_key].updated_at])

BridgeLookup_FirstTimestamp(pairs, from_currency, to_currency) ==
    LET from_usd_key == PairKey(from_currency, "USD")
        usd_to_key == PairKey("USD", to_currency)
    IN  IF /\ from_currency # "USD" /\ to_currency # "USD"
           /\ from_usd_key \in DOMAIN pairs /\ usd_to_key \in DOMAIN pairs
        THEN Return([rate |-> NumMul(pairs[from_usd_key].rate, pairs[usd_to_key].rate),
                     updated_at |-> pairs[from_usd_key].updated_at])
        ELSE Miss

\* the USD bridge: FROM_USD times USD_TO, stamped with the larger updated_at
BridgeLookup(pairs, from_currency, to_currency) ==
    LET from_usd_key == PairKey(from_currency, "USD")
        usd_to_key == PairKey("USD", to_currency)
    IN  IF /\ from_currency # "USD" /\ to_currency # "USD"
           /\ from_usd_key \in DOMAIN pairs /\ usd_to_key \in DOMAIN pairs
        THEN Return([rate |-> NumMul(pairs[from_usd_key].rate, pairs[usd_to_key].rate),
                     updated_at |-> StrMax(pairs[from_usd_key].updated_at,
                                           pairs[usd_to_key].updated_at)])
        ELSE Miss

LookupChain_InverseFirst(pairs, from_currency, to_currency) ==
    LET d == DirectLookup(pairs, from_currency, to_currency)
        i == InverseLookup(pairs, from_currency, to_currency)
        b == BridgeLookup(pairs, from_currency, to_currency)
    IN  IF i.kind # "miss" THEN i
        ELSE IF d.kind # "miss" THEN d
        ELSE IF b.kind # "miss" THEN b
        ELSE Raise("RateUnavailableError", from_currency, to_currency)

LookupChain_SwappedError(pairs, from_currency, to_currency) ==
    LET d == DirectLookup(pairs, from_currency, to_currency)
        i == InverseLookup(pairs, from_currency, to_currency)
        b == BridgeLookup(pairs, from_currency, to_currency)
    IN  IF d.kind # "miss" THEN d
        ELSE IF i.kind # "miss" THEN i
        ELSE IF b.kind # "miss" THEN b
        ELSE Raise("RateUnavailableError", to_currency, from_currency)

\* the three lookups in the order of the code; the first that applies returns
LookupChain(pairs, from_currency, to_currency) ==
    LET d == DirectLookup(pairs, from_currency, to_currency)
        i == InverseLookup(pairs, from_currency, to_currency)
        b == BridgeLookup(pairs, from_currency, to_currency)
    IN  IF d.kind # "miss" THEN d
        ELSE IF i.kind # "miss" THEN i
        ELSE IF b.kind # "miss" THEN b
        ELSE Raise("RateUnavailableError", from_currency, to_currency)

get_rate_IdentityAfterLookup(from_in, to_in, rates_data, now) ==
    LET from_currency == Upper(from_in)
        to_currency == Upper(to_in)
        d == DirectLookup(rates_data.pairs, from_currency, to_currency)
    IN
    IF ~validate_currency_code(from_currency)
        THEN Raise("InvalidCurrencyCodeError", from_currency, "")
    ELSE IF ~validate_currency_code(to_currency)
        THEN Raise("InvalidCurrencyCodeError", to_currency, "")
    ELSE IF ~currency_exists(from_currency)
        THEN Raise("CurrencyNotFoundError", from_currency, "")
    ELSE IF ~currency_exists(to_currency)
        THEN Raise("CurrencyNotFoundError", to_currency, "")
    ELSE IF d.kind # "miss"
        THEN d
    ELSE IF from_currency = to_currency
        THEN Return([rate |-> Num(1, 1, 0), updated_at |-> get_current_datetime(now)])
    ELSE LookupChain(rates_data.pairs, from_currency, to_currency)

get_rate(from_in, to_in, rates_data, now) ==
    LET from_currency == Upper(from_in)
        to_currency == Upper(to_in)
    IN
    IF ~validate_currency_code(from_currency)
        THEN Raise("InvalidCurrencyCodeError", from_currency, "")
    ELSE IF ~validate_currency_code(to_currency)
        THEN Raise("InvalidCurrencyCodeError", to_currency, "")
    ELSE IF ~currency_exists(from_currency)
        THEN Raise("CurrencyNotFoundError", from_currency, "")
    ELSE IF ~currency_exists(to_currency)
        THEN Raise("CurrencyNotFoundError", to_currency, "")
    ELSE IF from_currency = to_currency
        THEN Return([rate |-> Num(1, 1, 0), updated_at |-> get_current_datetime(now)])
    ELSE LookupChain(rates_data.pairs, from_currency, to_currency)

----------------------------------------------------------------------------
(* Insertion-ordered dicts: sequences of <<key, value>> items              *)

OKeys(od) == {od[i][1] : i \in DOMAIN od}

\* od[key] = value: an existing key keeps its position
OSet(od, key, value) ==
    IF key \in OKeys(od)
    THEN [i \in DOMAIN od |-> IF od[i][1] = key THEN <<key, value>> ELSE od[i]]
    ELSE Append(od, <<key, value>>)

\* od.update(other)
RECURSIVE OUpdate(_, _)
OUpdate(od, other) ==
    IF other = <<>> THEN od
    ELSE OUpdate(OSet(od, other[1][1], other[1][2]), Tail(other))

----------------------------------------------------------------------------
(* The Quote Sources: fetch_rates on the provider's response               *)

ApiError(text) == [kind |-> "raise", error |-> "ApiRequestError", text |-> text]

OtherError(error, text) == [kind |-> "raise", error |-> error, text |-> text]

Fetched(rates) == [kind |-> "return", rates |-> rates]

\* the client is not called in this run
NotCalled == [kind |-> "not_called"]

\* CoinGeckoClient.fetch_rates; resp.data is a sequence of <<id, price_data>>
RECURSIVE CoinGeckoRates(_, _)
CoinGeckoRates(data, rates) ==
    IF data = <<>> THEN rates
    ELSE LET crypto_id == data[1][1]
             price_data == data[1][2]
         IN  IF crypto_id \in DOMAIN id_to_code /\ "usd" \in DOMAIN price_data
             THEN CoinGeckoRates(Tail(data),
                     OSet(rates, PairKey(id_to_code[crypto_id], "USD"), price_data["usd"]))
             ELSE CoinGeckoRates(Tail(data), rates)

CoinGeckoFetch(resp) ==
    IF resp.kind = "api_error" THEN ApiError("CoinGecko: request failed")
    ELSE IF resp.data = <<>> THEN Fetched(<<>>)
    ELSE Fetched(CoinGeckoRates(resp.data, <<>>))

\* the fiat loop building the key as f"{base_currency}_{currency_code}"
RECURSIVE ExchangeRateRates_BaseFirst(_, _, _, _)
ExchangeRateRates_BaseFirst(i, raw_rates, base_currency, rates) ==
    IF i > Len(FIAT_CURRENCIES) THEN rates
    ELSE IF FIAT_CURRENCIES[i] \in DOMAIN raw_rates
    THEN ExchangeRateRates_BaseFirst(i + 1, raw_rates, base_currency,
            OSet(rates, PairKey(base_currency, FIAT_CURRENCIES[i]),
                 raw_rates[FIAT_CURRENCIES[i]]))
    ELSE ExchangeRateRates_BaseFirst(i + 1, raw_rates, base_currency, rates)

\* ExchangeRateApiClient.fetch_rates; resp.data is the decoded JSON body
RECURSIVE ExchangeRateRates(_, _, _, _)
ExchangeRateRates(i, raw_rates, base_currency, rates) ==
    IF i > Len(FIAT_CURRENCIES) THEN rates
    ELSE IF FIAT_CURRENCIES[i] \in DOMAIN raw_rates
    THEN ExchangeRateRates(i + 1, raw_rates, base_currency,
            OSet(rates, PairKey(FIAT_CURRENCIES[i], base_currency),
                 raw_rates[FIAT_CURRENCIES[i]]))
    ELSE ExchangeRateRates(i + 1, raw_rates, base_currency, rates)

ExchangeRateFetch(resp) ==
    IF resp.kind = "api_error" THEN ApiError("ExchangeRate-API: request failed")
    ELSE IF resp.kind = "not_dict"
        THEN OtherError("AttributeError", "'list' object has no attribute 'get'")
    ELSE IF resp.data.result # "success"
        THEN ApiError("ExchangeRate-API: " \o resp.data.error_type)
    ELSE LET base_currency == resp.data.base_code
             rates == ExchangeRateRates(1, resp.data.conversion_rates, base_currency, <<>>)
         IN  Fetched(OSet(rates, PairKey(base_currency, base_currency), Num(1, 1, 0)))

----------------------------------------------------------------------------
(* The History                                                             *)

\* the retention cap run_update passes to cleanup_old_history
HISTORY_MAX_RECORDS == 1000

\* RatesStorage.create_history_record
create_history_record(from_currency, to_currency, rate, source, meta, now) ==
    [id |-> <<PairKey(Upper(from_currency), Upper(to_currency)), ZIso(now)>>,
     from_currency |-> Upper(from_currency),
     to_currency |-> Upper(to_currency),
     rate |-> rate,
     timestamp |-> ZIso(now),
     source |-> source,
     meta |-> meta]

\* RatesStorage.add_history_record: a failing write is logged and swallowed
add_history_record(hist, record, writeFails) ==
    IF writeFails THEN hist ELSE Append(hist, record)

\* RatesStorage.cleanup_old_history: history[-max_records:]
cleanup_old_history(hist, max_records, writeFails) ==
    IF Len(hist) > max_records /\ ~writeFails
    THEN SubSeq(hist, Len(hist) - max_records + 1, Len(hist))
    ELSE hist

----------------------------------------------------------------------------
(* RatesUpdater.run_update                                                 *)

\* the source argument (cli/interface.py: --source all|coingecko|exchangerate)
Sources == {"all", "coingecko", "exchangerate"}

\* str(e)
ErrText(exc) ==
    IF exc.error = "ApiRequestError" THEN "external API error: " \o exc.text
    ELSE exc.text

MergeRates_FirstWins(crypto_rates, fiat_rates) ==
    OUpdate(OUpdate(<<>>, fiat_rates), crypto_rates)

\* lines 63-84: new_rates = {}; new_rates.update(crypto_rates);
\* new_rates.update(fiat_rates)
MergeRates(crypto_rates, fiat_rates) ==
    OUpdate(OUpdate(<<>>, crypto_rates), fiat_rates)

\* FetchAll without the `if source == ...: raise` of the two handlers
FetchAll_AbsorbScoped(source, cgResp, erResp) ==
    LET cg == IF source \in {"all", "coingecko"} THEN CoinGeckoFetch(cgResp) ELSE NotCalled
        er == IF source \in {"all", "exchangerate"} THEN ExchangeRateFetch(erResp) ELSE NotCalled
        crypto_rates == IF cg.kind = "return" THEN cg.rates ELSE <<>>
        fiat_rates == IF er.kind = "return" THEN er.rates ELSE <<>>
    IN
    IF er.kind = "raise" /\ er.error # "ApiRequestError" THEN er
    ELSE [kind |-> "return", new_rates |-> OUpdate(OUpdate(<<>>, crypto_rates), fiat_rates)]

\* FetchAll with `raise` in the two handlers whatever the source argument
FetchAll_AbortOnFailure(source, cgResp, erResp) ==
    LET cg == IF source \in {"all", "coingecko"} THEN CoinGeckoFetch(cgResp) ELSE NotCalled
        er == IF source \in {"all", "exchangerate"} THEN ExchangeRateFetch(erResp) ELSE NotCalled
        crypto_rates == IF cg.kind = "return" THEN cg.rates ELSE <<>>
        fiat_rates == IF er.kind = "return" THEN er.rates ELSE <<>>
    IN
    IF cg.kind = "raise" THEN cg
    ELSE IF er.kind = "raise" THEN er
    ELSE [kind |-> "return", new_rates |-> OUpdate(OUpdate(<<>>, crypto_rates), fiat_rates)]

\* lines 62-91: call the clients and merge what they return into new_rates
FetchAll(source, cgResp, erResp) ==
    LET cg == IF source \in {"all", "coingecko"} THEN CoinGeckoFetch(cgResp) ELSE NotCalled
        er == IF source \in {"all", "exchangerate"} THEN ExchangeRateFetch(erResp) ELSE NotCalled
        crypto_rates == IF cg.kind = "return" THEN cg.rates ELSE <<>>
        fiat_rates == IF er.kind = "return" THEN er.rates ELSE <<>>
    IN
    IF cg.kind = "raise" /\ source = "coingecko" THEN cg
    ELSE IF er.kind = "raise" /\ (er.error # "ApiRequestError" \/ source = "exchangerate") THEN er
    ELSE [kind |-> "return", new_rates |-> MergeRates(crypto_rates, fiat_rates)]

\* line 147: `pair_key in current_pair`, a membership test on the quote dict
\* that pairs.get(pair_key, {}) returned
CountsAsUpdated(pair_key, current_pair) == pair_key \in DOMAIN current_pair

\* the per-pair loop without the validate_rate test of lines 109-111
RECURSIVE ProcessPairs_NoValidation(_, _, _, _)
ProcessPairs_NoValidation(items, acc, now, histFails) ==
    IF items = <<>> THEN acc
    ELSE
    LET pair_key == items[1][1]
        rate == items[1][2]
        from_curr == SplitFrom(pair_key)
        to_curr == SplitTo(pair_key)
        source_name == IF from_curr \in CRYPTO_CURRENCIES THEN "CoinGecko"
                       ELSE "ExchangeRate-API"
        current_pair == DictGet(acc.pairs, pair_key, EmptyDict)
        current_rate == DictGet(current_pair, "rate", PyNone)
        meta == [previous_rate |-> current_rate, change_pct |-> PyNone]
        record == create_history_record(from_curr, to_curr, rate, source_name, meta, now)
    IN  ProcessPairs_NoValidation(Tail(items),
            [pairs |-> DictSet(acc.pairs, pair_key, Quote(rate, UtcIso(now), source_name)),
             hist |-> add_history_record(acc.hist, record, histFails),
             updated_count |-> acc.updated_count,
             new_count |-> acc.new_count + 1],
            now, histFails)

\* the per-pair loop reading current_pair after pairs[pair_key] was assigned
RECURSIVE ProcessPairs_ReadAfterWrite(_, _, _, _)
ProcessPairs_ReadAfterWrite(items, acc, now, histFails) ==
    IF items = <<>> THEN acc
    ELSE
    LET pair_key == items[1][1]
        rate == items[1][2]
    IN
    IF ~validate_rate(rate) THEN ProcessPairs_ReadAfterWrite(Tail(items), acc, now, histFails)
    ELSE
    LET from_curr == SplitFrom(pair_key)
        to_curr == SplitTo(pair_key)
        source_name == IF from_curr \in CRYPTO_CURRENCIES THEN "CoinGecko"
                       ELSE "ExchangeRate-API"
        pairs == DictSet(acc.pairs, pair_key, Quote(rate, UtcIso(now), source_name))
        current_pair == DictGet(pairs, pair_key, EmptyDict)
        current_rate == DictGet(current_pair, "rate", PyNone)
        meta == [previous_rate |-> current_rate,
                 change_pct |->
                    IF Truthy(current_rate)
                    THEN NumAbs(NumMul(NumDiv(NumSub(rate, current_rate), current_rate),
                                       Num(100, 1, 0)))
                    ELSE PyNone]
        record == create_history_record(from_curr, to_curr, rate, source_name, meta, now)
        updated == CountsAsUpdated(pair_key, current_pair)
    IN  ProcessPairs_ReadAfterWrite(Tail(items),
            [pairs |-> pairs,
             hist |-> add_history_record(acc.hist, record, histFails),
             updated_count |-> IF updated THEN acc.updated_count + 1 ELSE acc.updated_count,
             new_count |-> IF updated THEN acc.new_count ELSE acc.new_count + 1],
            now, histFails)

\* lines 107-150: the per-pair loop; acc = [pairs, hist, updated_count, new_count]
RECURSIVE ProcessPairs(_, _, _, _)
ProcessPairs(items, acc, now, histFails) ==
    IF items = <<>> THEN acc
    ELSE
    LET pair_key == items[1][1]
        rate == items[1][2]
    IN
    IF ~validate_rate(rate) THEN ProcessPairs(Tail(items), acc, now, histFails)
    ELSE
    LET from_curr == SplitFrom(pair_key)
        to_curr == SplitTo(pair_key)
        source_name == IF from_curr \in CRYPTO_CURRENCIES THEN "CoinGecko"
                       ELSE "ExchangeRate-API"
        current_pair == DictGet(acc.pairs, pair_key, EmptyDict)
        current_rate == DictGet(current_pair, "rate", PyNone)
        meta == [previous_rate |-> current_rate,
                 change_pct |->
                    IF Truthy(current_rate)
                    THEN NumAbs(NumMul(NumDiv(NumSub(rate, current_rate), current_rate),
                                       Num(100, 1, 0)))
                    ELSE PyNone]
        record == create_history_record(from_curr, to_curr, rate, source_name, meta, now)
        updated == CountsAsUpdated(pair_key, current_pair)
    IN  ProcessPairs(Tail(items),
            [pairs |-> DictSet(acc.pairs, pair_key, Quote(rate, UtcIso(now), source_name)),
             hist |-> add_history_record(acc.hist, record, histFails),
             updated_count |-> IF updated THEN acc.updated_count + 1 ELSE acc.updated_count,
             new_count |-> IF updated THEN acc.new_count ELSE acc.new_count + 1],
            now, histFails)

\* RunBody without the `if not new_rates` return of lines 93-100
RunBody_NoEmptyCheck(source, cgResp, erResp, saveFails, histFails, snap, hist, st, now) ==
    LET fetched == FetchAll(source, cgResp, erResp) IN
    IF fetched.kind = "raise"
    THEN [kind |-> "raise", exc |-> fetched, snapshot |-> snap, history |-> hist, stats |-> st]
    ELSE
    LET acc == ProcessPairs(fetched.new_rates,
                   [pairs |-> snap.pairs, hist |-> hist, updated_count |-> 0, new_count |-> 0],
                   now, histFails)
    IN
    IF saveFails
    THEN [kind |-> "raise", exc |-> OtherError("OSError", "cannot write rates.json"),
          snapshot |-> snap, history |-> acc.hist, stats |-> st]
    ELSE [kind |-> "return",
          snapshot |-> [pairs |-> acc.pairs, last_refresh |-> UtcIso(now)],
          history |-> cleanup_old_history(acc.hist, HISTORY_MAX_RECORDS, histFails),
          stats |-> [st EXCEPT !.total_updates = @ + 1,
                               !.successful_updates = @ + 1,
                               !.last_update_time = UtcIso(now)],
          result |-> [success |-> TRUE, message |-> "update completed",
                      total_pairs |-> Cardinality(DOMAIN acc.pairs),
                      updated_pairs |-> acc.updated_count,
                      new_pairs |-> acc.new_count,
                      source |-> source]]

\* lines 93-181: from the merged map to the result of the run
ApplyRates(source, new_rates, saveFails, histFails, snap, hist, st, now) ==
    IF new_rates = <<>>
    THEN [kind |-> "return", snapshot |-> snap, history |-> hist, stats |-> st,
          result |-> [success |-> FALSE, message |-> "no rates from any source",
                      updated_pairs |-> 0]]
    ELSE
    LET acc == ProcessPairs(new_rates,
                   [pairs |-> snap.pairs, hist |-> hist, updated_count |-> 0, new_count |-> 0],
                   now, histFails)
    IN
    IF saveFails
    THEN [kind |-> "raise", exc |-> OtherError("OSError", "cannot write rates.json"),
          snapshot |-> snap, history |-> acc.hist, stats |-> st]
    ELSE [kind |-> "return",
          snapshot |-> [pairs |-> acc.pairs, last_refresh |-> UtcIso(now)],
          history |-> cleanup_old_history(acc.hist, HISTORY_MAX_RECORDS, histFails),
          stats |-> [st EXCEPT !.total_updates = @ + 1,
                               !.successful_updates = @ + 1,
                               !.last_update_time = UtcIso(now)],
          result |-> [success |-> TRUE, message |-> "update completed",
                      total_pairs |-> Cardinality(DOMAIN acc.pairs),
                      updated_pairs |-> acc.updated_count,
                      new_pairs |-> acc.new_count,
                      source |-> source]]

\* lines 57-181: the body of the try block.  The outcome is the returned result
\* or the exception that leaves the block, with the persisted state at that point
RunBody(source, cgResp, erResp, saveFails, histFails, snap, hist, st, now) ==
    LET fetched == FetchAll(source, cgResp, erResp) IN
    IF fetched.kind = "raise"
    THEN [kind |-> "raise", exc |-> fetched, snapshot |-> snap, history |-> hist, stats |-> st]
    ELSE ApplyRates(source, fetched.new_rates, saveFails, histFails, snap, hist, st, now)

\* HandleException that counts the failure and lets the exception go on
HandleException_Reraise(body, source) ==
    [kind |-> "raise",
     snapshot |-> body.snapshot,
     history |-> body.history,
     stats |-> [body.stats EXCEPT !.total_updates = @ + 1,
                                  !.failed_updates = @ + 1,
                                  !.last_error = <<ErrText(body.exc)>>],
     result |-> [success |-> FALSE,
                 message |-> "update error: " \o ErrText(body.exc),
                 source |-> source]]

\* the handler counting the failure without counting the run
HandleException_NoTotal(body, source) ==
    [kind |-> "return",
     snapshot |-> body.snapshot,
     history |-> body.history,
     stats |-> [body.stats EXCEPT !.failed_updates = @ + 1,
                                  !.last_error = <<ErrText(body.exc)>>],
     result |-> [success |-> FALSE,
                 message |-> "update error: " \o ErrText(body.exc),
                 source |-> source]]

\* lines 183-196: `except Exception` around the body
HandleException(body, source) ==
    [kind |-> "return",
     snapshot |-> body.snapshot,
     history |-> body.history,
     stats |-> [body.stats EXCEPT !.total_updates = @ + 1,
                                  !.failed_updates = @ + 1,
                                  !.last_error = <<ErrText(body.exc)>>],
     result |-> [success |-> FALSE,
                 message |-> "update error: " \o ErrText(body.exc),
                 source |-> source]]

run_update(source, cgResp, erResp, saveFails, histFails, snap, hist, st, now) ==
    LET body == RunBody(source, cgResp, erResp, saveFails, histFails, snap, hist, st, now)
    IN  IF body.kind = "raise" THEN HandleException(body, source) ELSE body

----------------------------------------------------------------------------
(* Inputs of the model                                                     *)

T0 == <<0, 0, 0>>

BTC_USD == PairKey("BTC", "USD")
EUR_USD == PairKey("EUR", "USD")
USD_USD == PairKey("USD", "USD")

\* what CoinGecko answers: a failed request, or a JSON object id -> {usd: price}
CgPrices == {Num(51000, 1, 0), Num(0, 1, 0)}

CgResponses ==
    {[kind |-> "api_error"], [kind |-> "ok", data |-> <<>>]}
        \cup {[kind |-> "ok", data |-> << <<"bitcoin", [usd |-> p]>> >>] : p \in CgPrices}

\* what ExchangeRate-API answers: a failed request, a JSON array, an error
\* object, or a success object with conversion_rates
ErRawRates == {[c \in {"EUR"} |-> Num(92, 1, -2)]}

ErBody(result, error_type, raw) ==
    [result |-> result, error_type |-> error_type, base_code |-> "USD",
     conversion_rates |-> raw]

ErResponses ==
    {[kind |-> "api_error"], [kind |-> "not_dict"],
     [kind |-> "ok", data |-> ErBody("error", "invalid-key", EmptyDict)]}
        \cup {[kind |-> "ok", data |-> ErBody("success", "", raw)] : raw \in ErRawRates}

\* rates.json when the updater starts: absent, the product of earlier runs, or
\* hand-edited entries (source "test")
InitSnapshots ==
    {EmptySnapshot,
     [pairs |-> [k \in {BTC_USD} |-> Quote(Num(50000, 1, 0), T0, "CoinGecko")],
      last_refresh |-> T0],
     [pairs |-> [k \in {BTC_USD, EUR_USD} |->
                    IF k = BTC_USD THEN Quote(Num(0, 1, 0), T0, "test")
                    ELSE Quote(Num(92, 1, -2), T0, "ExchangeRate-API")],
      last_refresh |-> T0]}

InitStats ==
    [total_updates |-> 0, successful_updates |-> 0, failed_updates |-> 0,
     last_update_time |-> <<>>, last_error |-> <<>>]

NoCall == [kind |-> "none"]

\* RatesScheduler.__init__ (the `schedule` module holds no job yet)
InitSched ==
    [is_running |-> FALSE, stop_event |-> FALSE, threads |-> <<>>, jobs |-> 0,
     stop_pc |-> "idle", last_join |-> "none", scheduled_updates |-> 0]

NoPre == [snapshot |-> EmptySnapshot, history |-> <<>>, stats |-> InitStats]

\* what get_rate may find in rates.json: any RateQuote records under the keys
\* of three currencies, hand-edited ones (rate 0) included
RateKeys == {PairKey(a, b) : a, b \in {"USD", "EUR", "BTC"}}

RateQuotes ==
    {Quote(Num(2, 1, 0), <<0, 1, 0>>, "CoinGecko"),
     Quote(Num(3, 1, 0), <<9>>, "ExchangeRate-API"),
     Quote(Num(0, 1, 0), T0, "test")}

RateInitSnapshots ==
    {[pairs |-> p, last_refresh |-> T0] :
        p \in UNION {[K -> RateQuotes] :
                        K \in {S \in SUBSET RateKeys : Cardinality(S) <= MaxInitPairs}}}

\* an exchange_rates.json filled by earlier processes: records of BTC_USD
\* written at instants before the first run of the model, oldest first
OldRecord(i) ==
    create_history_record("BTC", "USD", Num(50000, 1, 0), "CoinGecko",
                          [previous_rate |-> Num(50000, 1, 0), change_pct |-> Num(0, 1, 0)],
                          i - HISTORY_MAX_RECORDS - 1)

\* a History one record short of the retention cap, and one at the cap
InitHistories ==
    {[i \in 1 .. n |-> OldRecord(i + HISTORY_MAX_RECORDS - n)] :
        n \in {HISTORY_MAX_RECORDS - 1, HISTORY_MAX_RECORDS}}

\* what a fetch_rates call may return by its contract (a mapping from pair key
\* to rate): maps over two pair keys, in either insertion order
FetchedRates == {Num(2, 1, 0), Num(3, 1, 0)}

FetchedMaps ==
    {<<>>}
        \cup {<<<<k, r>>>> : k \in {BTC_USD, EUR_USD}, r \in FetchedRates}
        \cup {m \in {<<<<k1, r1>>, <<k2, r2>>>> :
                          k1 \in {BTC_USD, EUR_USD}, k2 \in {BTC_USD, EUR_USD},
                          r1 \in FetchedRates, r2 \in FetchedRates} :
                  m[1][1] # m[2][1]}

\* the values handed to validate_rate
RateInputs ==
    {Num(n, d, e) : n \in -1 .. MaxMant, d \in {1, 3}, e \in -10 .. 9}
        \cup {Num(99, 1, -10), Num(11, 1, 8), Num(999999999, 1, 0), Num(1000000001, 1, 0)}
        \cup {PyNaN, PyInf, PyNegInf, PyStr, PyNone, PyTrue, PyFalse}

----------------------------------------------------------------------------
(* Actions                                                                 *)

\* does the run get as far as the per-pair loop, and does the loop accept a pair
ReachesLoop(source, cgResp, erResp) ==
    LET f == FetchAll(source, cgResp, erResp)
    IN  f.kind = "return" /\ f.new_rates # <<>>

AcceptsPair(source, cgResp, erResp) ==
    LET f == FetchAll(source, cgResp, erResp)
    IN  /\ f.kind = "return"
        /\ \E i \in DOMAIN f.new_rates : validate_rate(f.new_rates[i][2])

\* one call of run_update(source); the environment picks what the providers
\* answer and whether the writes of rates.json and exchange_rates.json fail
RunUpdateFrom(sources, cgResponses, erResponses) ==
    /\ clock <= MaxRuns
    /\ \E source \in sources :
       \E cgResp \in IF source = "exchangerate" THEN {NotCalled} ELSE cgResponses :
       \E erResp \in IF source = "coingecko" THEN {NotCalled} ELSE erResponses :
       \E saveFails \in IF ReachesLoop(source, cgResp, erResp) THEN BOOLEAN ELSE {FALSE} :
       \E histFails \in IF AcceptsPair(source, cgResp, erResp) THEN BOOLEAN ELSE {FALSE} :
       \E r \in {run_update(source, cgResp, erResp, saveFails, histFails,
                             snapshot, history, stats, clock)} :
              /\ snapshot' = r.snapshot
              /\ history' = r.history
              /\ stats' = r.stats
              /\ lastRun' = [kind |-> "run_update", source |-> source,
                             cgResp |-> cgResp, erResp |-> erResp,
                             saveFails |-> saveFails, histFails |-> histFails,
                             outcome |-> r.kind, result |-> r.result]
    /\ pre' = [snapshot |-> snapshot, history |-> history, stats |-> stats]
    /\ prevRun' = IF lastRun.kind = "run_update"
                  THEN [kind |-> "run_update",
                        success |-> lastRun.result.success,
                        sameSource |-> lastRun.source = lastRun'.source,
                        sameResponses |-> /\ lastRun.cgResp = lastRun'.cgResp
                                          /\ lastRun.erResp = lastRun'.erResp]
                  ELSE NoCall
    /\ clock' = clock + 1
    /\ UNCHANGED <<inflight, rateCall, valCall, req>>

\* run_update called from the command line
RunUpdate == RunUpdateFrom(Sources, CgResponses, ErResponses) /\ UNCHANGED sched

\* GetRate with an update run started from inside the lookup
GetRate_AutoRefresh ==
    /\ rateCall.kind \in {"pending", "none"}
    /\ \E from \in IF rateCall.kind = "pending" THEN {rateCall.from} ELSE HubCodeInputs :
       \E to \in IF rateCall.kind = "pending" THEN {rateCall.to} ELSE HubCodeInputs :
       \E r \in {run_update("coingecko", [kind |-> "api_error"], NotCalled,
                            FALSE, FALSE, snapshot, history, stats, clock)} :
          /\ rateCall' = [kind |-> "get_rate", from |-> from, to |-> to,
                          outcome |-> get_rate(from, to, r.snapshot, clock)]
          /\ stats' = r.stats
    /\ UNCHANGED <<inflight, snapshot, history, clock, pre, prevRun, lastRun, valCall, sched, req>>

\* one call of RateService.get_rate(from_currency, to_currency): with the
\* arguments drawn in the initial state, or with arguments the caller picks
GetRate ==
    /\ rateCall.kind \in {"pending", "none"}
    /\ \E from \in IF rateCall.kind = "pending" THEN {rateCall.from} ELSE HubCodeInputs :
       \E to \in IF rateCall.kind = "pending" THEN {rateCall.to} ELSE HubCodeInputs :
          rateCall' = [kind |-> "get_rate", from |-> from, to |-> to,
                       outcome |-> get_rate(from, to, snapshot, clock)]
    /\ UNCHANGED <<inflight, snapshot, history, stats, clock, pre, prevRun, lastRun, valCall,
                   sched, req>>

\* one call of RatesStorage.validate_rate on the value drawn in the initial state
ValidateRate ==
    /\ valCall.kind = "pending"
    /\ valCall' = [kind |-> "validate_rate", rate |-> valCall.rate,
                   result |-> validate_rate(valCall.rate)]
    /\ UNCHANGED <<inflight, snapshot, history, stats, clock, pre, prevRun, lastRun, rateCall,
                   sched, req>>

\* lines 63-181 of run_update("all") once both fetch_rates calls have returned
\* the maps drawn in the initial state: merge, per-pair loop, save
MergeAndWrite ==
    /\ lastRun.kind = "merge_pending"
    /\ \E r \in {ApplyRates("all", MergeRates(lastRun.crypto_rates, lastRun.fiat_rates),
                             FALSE, FALSE, snapshot, history, stats, clock)} :
          /\ snapshot' = r.snapshot
          /\ history' = r.history
          /\ stats' = r.stats
          /\ lastRun' = [kind |-> "merge",
                         crypto_rates |-> lastRun.crypto_rates,
                         fiat_rates |-> lastRun.fiat_rates,
                         result |-> r.result]
    /\ pre' = [snapshot |-> snapshot, history |-> history, stats |-> stats]
    /\ clock' = clock + 1
    /\ UNCHANGED <<inflight, prevRun, rateCall, valCall, sched, req>>

----------------------------------------------------------------------------
(* RatesScheduler: start(), stop() and the worker loop _run_scheduler       *)

\* what the providers answer to a scheduled update: CoinGecko is out of reach,
\* ExchangeRate-API is out of reach or answers
SchedCgResponses == {r \in CgResponses : r.kind = "api_error"}

SchedErResponses ==
    {r \in ErResponses : r.kind = "api_error" \/ (r.kind = "ok" /\ r.data.result = "success")}

\* the worker threads that have begun a scheduled update and not finished it
Updating == {w \in DOMAIN sched.threads : sched.threads[w] = "updating"}

\* RatesScheduler.start(): register the job, clear the event, start a worker
Start ==
    /\ sched.stop_pc = "idle"
    /\ ~sched.is_running
    /\ Len(sched.threads) < MaxStarts
    /\ sched' = [sched EXCEPT !.jobs = 1,
                              !.is_running = TRUE,
                              !.stop_event = FALSE,
                              !.threads = Append(@, "test")]
    /\ UNCHANGED <<inflight, snapshot, history, stats, clock, pre, prevRun, lastRun, rateCall,
                   valCall, req>>

\* RatesScheduler.stop() up to the join: is_running = False, stop_event.set()
StopBegin ==
    /\ sched.stop_pc = "idle"
    /\ sched.is_running
    /\ sched' = [sched EXCEPT !.is_running = FALSE,
                              !.stop_event = TRUE,
                              !.stop_pc = "join"]
    /\ UNCHANGED <<inflight, snapshot, history, stats, clock, pre, prevRun, lastRun, rateCall,
                   valCall, req>>

\* scheduler_thread.join(timeout=10) returns, because the worker has exited or
\* because the ten seconds are over; then schedule.clear()
StopJoin ==
    /\ sched.stop_pc = "join"
    /\ sched' = [sched EXCEPT !.jobs = 0,
                              !.stop_pc = "idle",
                              !.last_join =
                                  IF sched.threads[Len(sched.threads)] = "done"
                                  THEN "exited" ELSE "timeout"]
    /\ UNCHANGED <<inflight, snapshot, history, stats, clock, pre, prevRun, lastRun, rateCall,
                   valCall, req>>

LoopTest_WhileTrue(w) ==
    /\ w \in DOMAIN sched.threads
    /\ sched.threads[w] = "test"
    /\ sched' = [sched EXCEPT !.threads[w] = "run_pending"]
    /\ UNCHANGED <<inflight, snapshot, history, stats, clock, pre, prevRun, lastRun, rateCall,
                   valCall, req>>

\* `while not self.stop_event.is_set()`
LoopTest(w) ==
    /\ w \in DOMAIN sched.threads
    /\ sched.threads[w] = "test"
    /\ sched' = [sched EXCEPT !.threads[w] =
                                  IF sched.stop_event THEN "done" ELSE "run_pending"]
    /\ UNCHANGED <<inflight, snapshot, history, stats, clock, pre, prevRun, lastRun, rateCall,
                   valCall, req>>

\* schedule.run_pending(): the registered job is run when it is due
RunPending(w) ==
    /\ w \in DOMAIN sched.threads
    /\ sched.threads[w] = "run_pending"
    /\ \E due \in IF /\ sched.jobs > 0
                     /\ sched.scheduled_updates + Cardinality(Updating) < MaxScheduled
                     /\ clock + Cardinality(Updating) <= MaxRuns
                  THEN BOOLEAN ELSE {FALSE} :
          sched' = [sched EXCEPT !.threads[w] = IF due THEN "updating" ELSE "wait"]
    /\ UNCHANGED <<inflight, snapshot, history, stats, clock, pre, prevRun, lastRun, rateCall,
                   valCall, req>>

\* _scheduled_update: self.updater.run_update() and the schedule statistics
ScheduledUpdate(w) ==
    /\ w \in DOMAIN sched.threads
    /\ sched.threads[w] = "updating"
    /\ RunUpdateFrom({"all"}, SchedCgResponses, SchedErResponses)
    /\ sched' = [sched EXCEPT !.threads[w] = "wait",
                              !.scheduled_updates = @ + 1]

\* self.stop_event.wait(1) returns: the event is set or the second is over
Wait(w) ==
    /\ w \in DOMAIN sched.threads
    /\ sched.threads[w] = "wait"
    /\ sched' = [sched EXCEPT !.threads[w] = "test"]
    /\ UNCHANGED <<inflight, snapshot, history, stats, clock, pre, prevRun, lastRun, rateCall,
                   valCall, req>>

----------------------------------------------------------------------------
(* run_update executions that overlap                                      *)

\* who calls run_update: handle_update_rates on the main thread of the
\* interactive CLI, _scheduled_update on a worker thread of the scheduler
Cli == <<"cli", 0>>

Worker(w) == <<"worker", w>>

\* lines 57-60: the execution loads rates.json into its own current_rates
LoadRates(c) ==
    /\ c \notin DOMAIN inflight
    /\ clock + Cardinality({y \in DOMAIN inflight : inflight[y].pc = "loaded"}) <= MaxRuns
    /\ inflight' =
          [x \in DOMAIN inflight \cup {c} |->
              IF x = c
              THEN [pc |-> "loaded", current_rates |-> snapshot,
                    overlapped |-> \E y \in DOMAIN inflight : inflight[y].pc = "loaded",
                    success |-> FALSE, accepted |-> {}, stamp |-> <<>>]
              ELSE [inflight[x] EXCEPT !.overlapped = @ \/ inflight[x].pc = "loaded"]]

\* lines 62-198: the rest of the execution on the copy it loaded; the History
\* and the statistics are read where they are now, and rates.json is written
\* only by a run that reaches save_rates.  Both files can be written.
FinishRun(c, sources, cgResponses, erResponses) ==
    /\ c \in DOMAIN inflight
    /\ inflight[c].pc = "loaded"
    /\ \E source \in sources :
       \E cgResp \in IF source = "exchangerate" THEN {NotCalled} ELSE cgResponses :
       \E erResp \in IF source = "coingecko" THEN {NotCalled} ELSE erResponses :
       \E r \in {run_update(source, cgResp, erResp, FALSE, FALSE,
                             inflight[c].current_rates, history, stats, clock)} :
              /\ snapshot' = IF r.result.success THEN r.snapshot ELSE snapshot
              /\ history' = r.history
              /\ stats' = r.stats
              /\ lastRun' = [kind |-> "run_update", source |-> source,
                             cgResp |-> cgResp, erResp |-> erResp,
                             saveFails |-> FALSE, histFails |-> FALSE,
                             outcome |-> r.kind, result |-> r.result]
              /\ inflight' =
                    [inflight EXCEPT ![c] =
                        [@ EXCEPT !.pc = "done",
                                  !.success = r.result.success,
                                  !.stamp = UtcIso(clock),
                                  !.accepted =
                                      IF r.result.success
                                      THEN {k \in DOMAIN r.snapshot.pairs :
                                              r.snapshot.pairs[k].updated_at = UtcIso(clock)}
                                      ELSE {}]]
    /\ pre' = [snapshot |-> inflight[c].current_rates, history |-> history, stats |-> stats]
    /\ prevRun' = NoCall
    /\ clock' = clock + 1
    /\ UNCHANGED <<rateCall, valCall, req>>

\* handle_update_rates: self.rates_updater.run_update(source=args.source)
ManualLoad ==
    /\ LoadRates(Cli)
    /\ UNCHANGED <<snapshot, history, stats, clock, pre, prevRun, lastRun, rateCall,
                   valCall, sched, req>>

ManualFinish == FinishRun(Cli, Sources, CgResponses, ErResponses) /\ UNCHANGED sched

\* _scheduled_update: self.updater.run_update() on the same RatesUpdater
ScheduledLoad(w) ==
    /\ w \in DOMAIN sched.threads
    /\ sched.threads[w] = "updating"
    /\ LoadRates(Worker(w))
    /\ sched' = [sched EXCEPT !.threads[w] = "loaded"]
    /\ UNCHANGED <<snapshot, history, stats, clock, pre, prevRun, lastRun, rateCall,
                   valCall, req>>

ScheduledFinish(w) ==
    /\ w \in DOMAIN sched.threads
    /\ sched.threads[w] = "loaded"
    /\ FinishRun(Worker(w), {"all"}, SchedCgResponses, SchedErResponses)
    /\ sched' = [sched EXCEPT !.threads[w] = "wait",
                              !.scheduled_updates = @ + 1]

----------------------------------------------------------------------------
(* BaseApiClient._make_request                                             *)

\* config.RETRY_ATTEMPTS and config.RETRY_DELAY (seconds)
RETRY_ATTEMPTS == 3

RETRY_DELAY == 5

\* the decoded JSON bodies a 200 response can carry
Bodies == {r.data : r \in {x \in CgResponses : x.kind = "ok"}}

\* what one session.get can produce: a response (status code, and for a 200
\* whether its body is JSON) or an exception of the requests library
HttpResults ==
    {[kind |-> "response", status_code |-> 200, json |-> TRUE, body |-> b] : b \in Bodies}
        \cup {[kind |-> "response", status_code |-> 200, json |-> FALSE]}
        \cup {[kind |-> "response", status_code |-> c] : c \in {429, 404, 500}}
        \cup {[kind |-> "exception", error |-> e] :
                 e \in {"Timeout", "ConnectionError", "RequestException"}}

\* a call that has entered the function.  json_error_is_request_exception is
\* the installed requests library: from 2.27 on response.json() raises
\* requests.exceptions.JSONDecodeError, a subclass of both RequestException and
\* ValueError; before, it raises a plain ValueError.  No version is pinned.
NewRequest(lib) ==
    [kind |-> "make_request", pc |-> "loop", attempt |-> 0, gets |-> 0,
     results |-> <<>>, sleeps |-> <<>>,
     json_error_is_request_exception |-> lib]

\* `return response.json()`
Returned(r, body) == [r EXCEPT !.pc = "returned"] @@ [body |-> body]

\* `raise ApiRequestError(reason)`: none of the except clauses catches it
Raised(r, reason) ==
    [r EXCEPT !.pc = "raised"] @@ [error |-> "ApiRequestError", reason |-> reason]

\* `if attempt < RETRY_ATTEMPTS - 1: time.sleep(delay); continue` else the raise
RetryOrRaise(r, delay, reason) ==
    IF r.attempt < RETRY_ATTEMPTS - 1
    THEN [r EXCEPT !.attempt = @ + 1, !.sleeps = Append(@, delay)]
    ELSE Raised(r, reason)

\* response.json() raised: the first matching except clause handles it
OnJsonError(r) ==
    IF r.json_error_is_request_exception
    THEN RetryOrRaise(r, RETRY_DELAY, "request error")
    ELSE Raised(r, "invalid response format")

\* lines 59-114: one iteration of the for loop with the outcome of its GET
Iteration(r, res) ==
    LET r1 == [r EXCEPT !.gets = @ + 1, !.results = Append(@, res)]
    IN  CASE res.kind = "exception" /\ res.error = "Timeout" ->
                RetryOrRaise(r1, RETRY_DELAY, "timeout")
          [] res.kind = "exception" /\ res.error = "ConnectionError" ->
                RetryOrRaise(r1, RETRY_DELAY, "cannot connect")
          [] res.kind = "exception" /\ res.error = "RequestException" ->
                RetryOrRaise(r1, RETRY_DELAY, "request error")
          [] res.kind = "response" /\ res.status_code = 200 ->
                IF res.json THEN Returned(r1, res.body) ELSE OnJsonError(r1)
          [] res.kind = "response" /\ res.status_code = 429 ->
                RetryOrRaise(r1, RETRY_DELAY * (r1.attempt + 1), "rate limit exceeded")
          [] OTHER -> Raised(r1, "status")

\* lines 59-116: the for loop, one iteration per step; line 116 is what follows
\* a loop that ran out of iterations
MakeRequestStep ==
    /\ req.kind = "make_request"
    /\ req.pc = "loop"
    /\ IF req.attempt >= RETRY_ATTEMPTS
       THEN req' = Raised(req, "no attempts left")
       ELSE \E res \in HttpResults : req' = Iteration(req, res)
    /\ UNCHANGED <<inflight, snapshot, history, stats, clock, pre, prevRun, lastRun, rateCall,
                   valCall, sched>>

----------------------------------------------------------------------------
(* RatesUpdater.validate_rates                                             *)

\* config.UPDATE_INTERVAL (seconds)
UPDATE_INTERVAL == 3600

\* bool(updated_at) of `if updated_at:`: None and "" are false
StampTruthy(pair_data) ==
    /\ "updated_at" \in DOMAIN pair_data
    /\ pair_data.updated_at # <<>>

\* datetime.fromisoformat on the text with "Z" replaced by "+00:00", a naive
\* result being taken as UTC: the tick the two digits name, or ValueError for
\* a text that is no ISO date (here: one with fewer than two fields)
fromisoformat(updated_at) ==
    IF Len(updated_at) < 2 THEN [kind |-> "raise", error |-> "ValueError"]
    ELSE [kind |-> "return", t |-> updated_at[1] * 10 + updated_at[2]]

\* (now - update_time).total_seconds(), one tick of the clock being an hour
total_seconds(now, update_time) == (now - update_time) * 3600

Issue(pair_key, issue, pair_data) ==
    [pair |-> pair_key, issue |-> issue,
     source |-> DictGet(pair_data, "source", "unknown")]

\* lines 236-286: the body of the loop for one pair, as the issues it appends
PairIssues(pair_key, pair_data, now) ==
    IF DictGet(pair_data, "source", "") = "test" THEN {}
    ELSE IF ~validate_rate(DictGet(pair_data, "rate", PyNone))
        THEN {Issue(pair_key, "invalid rate", pair_data)}
    ELSE IF ~StampTruthy(pair_data) THEN {}
    ELSE LET update_time == fromisoformat(pair_data.updated_at)
         IN  IF update_time.kind = "raise"
             THEN {Issue(pair_key, "bad updated_at", pair_data)}
             ELSE IF total_seconds(now, update_time.t) > UPDATE_INTERVAL * 2
             THEN {Issue(pair_key, "stale", pair_data)}
             ELSE {}

\* RatesUpdater.validate_rates; the list of issues as a set (the order of the
\* list is the order of the keys in rates.json)
validate_rates(rates_data, now) ==
    UNION {PairIssues(k, rates_data.pairs[k], now) : k \in DOMAIN rates_data.pairs}

\* the quotes an operator may find in rates.json: written by the updater at
\* some earlier hour, by the core service (no offset suffix), or edited by hand
\* (any rate, an empty, missing or unreadable updated_at, the source "test")
AuditNow == 3

AuditStamps ==
    {UtcIso(AuditNow - a) : a \in 0 .. 3}
        \cup {ZIso(AuditNow - 3), get_current_datetime(AuditNow - 3), <<>>, <<0>>}

AuditQuotes ==
    {Quote(r, u, src) : r \in {Num(50000, 1, 0), Num(0, 1, 0)}, u \in AuditStamps,
                        src \in {"CoinGecko", "test"}}
        \cup {[rate |-> r, source |-> src] : r \in {Num(50000, 1, 0), Num(0, 1, 0)},
                                            src \in {"CoinGecko", "test"}}

AuditSnapshots ==
    {[pairs |-> [k \in {BTC_USD} |-> q], last_refresh |-> T0] : q \in AuditQuotes}
        \cup {[pairs |-> [k \in {BTC_USD, EUR_USD} |->
                              IF k = BTC_USD THEN q
                              ELSE Quote(Num(92, 1, -2), UtcIso(AuditNow), "ExchangeRate-API")],
                last_refresh |-> UtcIso(AuditNow)] : q \in AuditQuotes}

\* one call of validate_rates on the rates.json drawn in the initial state
ValidateRates ==
    /\ valCall.kind = "audit_pending"
    /\ valCall' = [kind |-> "validate_rates", issues |-> validate_rates(snapshot, clock)]
    /\ UNCHANGED <<inflight, snapshot, history, stats, clock, pre, prevRun, lastRun, rateCall,
                   sched, req>>

----------------------------------------------------------------------------
(* Specifications                                                          *)

\* the aggregator: update runs on one RatesUpdater
Init ==
    /\ snapshot \in InitSnapshots
    /\ history = <<>>
    /\ stats = InitStats
    /\ clock = 1
    /\ pre = NoPre
    /\ prevRun = NoCall
    /\ lastRun = NoCall
    /\ rateCall = NoCall
    /\ valCall = NoCall
    /\ sched = InitSched
    /\ req = NoCall
    /\ inflight = EmptyDict

Next == RunUpdate

Spec == Init /\ [][Next]_vars

\* the resolver: get_rate over whatever rates.json holds
InitRate ==
    /\ snapshot \in RateInitSnapshots
    /\ history = <<>>
    /\ stats = InitStats
    /\ clock = 1
    /\ pre = NoPre
    /\ prevRun = NoCall
    /\ lastRun = NoCall
    /\ rateCall \in {[kind |-> "pending", from |-> f, to |-> t] :
                        f \in CodeInputs, t \in CodeInputs}
    /\ valCall = NoCall
    /\ sched = InitSched
    /\ req = NoCall
    /\ inflight = EmptyDict

NextRate == GetRate

SpecRate == InitRate /\ [][NextRate]_vars

\* the aggregator over a History that earlier processes have filled
InitHistory ==
    /\ snapshot \in {s \in InitSnapshots :
                        /\ BTC_USD \in DOMAIN s.pairs
                        /\ s.pairs[BTC_USD].rate = OldRecord(HISTORY_MAX_RECORDS).rate}
    /\ history \in InitHistories
    /\ stats = InitStats
    /\ clock = 1
    /\ pre = NoPre
    /\ prevRun = NoCall
    /\ lastRun = NoCall
    /\ rateCall = NoCall
    /\ valCall = NoCall
    /\ sched = InitSched
    /\ req = NoCall
    /\ inflight = EmptyDict

NextHistory == RunUpdate

SpecHistory == InitHistory /\ [][NextHistory]_vars

\* the scheduler: start() and stop() from the command thread, the worker
\* threads running _run_scheduler.  A thread that can take a step takes one,
\* and run_update returns (its requests are bounded by timeouts and retries).
InitScheduler ==
    /\ snapshot = EmptySnapshot
    /\ history = <<>>
    /\ stats = InitStats
    /\ clock = 1
    /\ pre = NoPre
    /\ prevRun = NoCall
    /\ lastRun = NoCall
    /\ rateCall = NoCall
    /\ valCall = NoCall
    /\ sched = InitSched
    /\ req = NoCall
    /\ inflight = EmptyDict

NextScheduler ==
    \/ Start
    \/ StopBegin
    \/ StopJoin
    \/ \E w \in 1 .. MaxStarts : LoopTest(w)
    \/ \E w \in 1 .. MaxStarts : RunPending(w)
    \/ \E w \in 1 .. MaxStarts : ScheduledUpdate(w)
    \/ \E w \in 1 .. MaxStarts : Wait(w)

WorkerFairness ==
    \A w \in 1 .. MaxStarts :
        /\ WF_vars(LoopTest(w))
        /\ WF_vars(RunPending(w))
        /\ WF_vars(ScheduledUpdate(w))
        /\ WF_vars(Wait(w))

SpecScheduler == InitScheduler /\ [][NextScheduler]_vars /\ WorkerFairness

\* one call of _make_request against a server and a network that may answer
\* anything; the call keeps running (it is not abandoned in the loop)
InitRequest ==
    /\ snapshot = EmptySnapshot
    /\ history = <<>>
    /\ stats = InitStats
    /\ clock = 1
    /\ pre = NoPre
    /\ prevRun = NoCall
    /\ lastRun = NoCall
    /\ rateCall = NoCall
    /\ valCall = NoCall
    /\ sched = InitSched
    /\ req \in {NewRequest(lib) : lib \in BOOLEAN}
    /\ inflight = EmptyDict

NextRequest == MakeRequestStep

SpecRequest == InitRequest /\ [][NextRequest]_vars /\ WF_vars(MakeRequestStep)

\* validate_rates on a rates.json of any content
InitAudit ==
    /\ snapshot \in AuditSnapshots
    /\ history = <<>>
    /\ stats = InitStats
    /\ clock = AuditNow
    /\ pre = NoPre
    /\ prevRun = NoCall
    /\ lastRun = NoCall
    /\ rateCall = NoCall
    /\ valCall = [kind |-> "audit_pending"]
    /\ sched = InitSched
    /\ req = NoCall
    /\ inflight = EmptyDict

NextAudit == ValidateRates

SpecAudit == InitAudit /\ [][NextAudit]_vars

\* the interactive CLI with the scheduler started once: the operator may run
\* update-rates while the worker thread runs its scheduled update
InitOverlap == Init

NextOverlap ==
    \/ Start
    \/ ManualLoad
    \/ ManualFinish
    \/ \E w \in 1 .. MaxStarts :
          \/ LoopTest(w)
          \/ RunPending(w)
          \/ ScheduledLoad(w)
          \/ ScheduledFinish(w)
          \/ Wait(w)

SpecOverlap == InitOverlap /\ [][NextOverlap]_vars

\* the merge of run_update over whatever the two clients return
InitMerge ==
    /\ snapshot \in InitSnapshots
    /\ history = <<>>
    /\ stats = InitStats
    /\ clock = 1
    /\ pre = NoPre
    /\ prevRun = NoCall
    /\ lastRun \in {[kind |-> "merge_pending", crypto_rates |-> c, fiat_rates |-> f] :
                       c \in FetchedMaps, f \in FetchedMaps}
    /\ rateCall = NoCall
    /\ valCall = NoCall
    /\ sched = InitSched
    /\ req = NoCall
    /\ inflight = EmptyDict

NextMerge == MergeAndWrite

SpecMerge == InitMerge /\ [][NextMerge]_vars

\* the hub: update runs on one RatesUpdater, then one get_rate over what they left
NextHub ==
    \/ rateCall.kind = "none" /\ RunUpdate
    \/ GetRate

SpecHub == Init /\ [][NextHub]_vars

\* update runs followed by one get_rate, rates.json being absent at first
InitFromEmpty == Init /\ snapshot = EmptySnapshot

SpecFromEmpty == InitFromEmpty /\ [][NextHub]_vars

\* the same, rates.json being absent or holding valid rates at first
InitValid ==
    /\ Init
    /\ \A k \in DOMAIN snapshot.pairs : validate_rate(snapshot.pairs[k].rate)

SpecValid == InitValid /\ [][NextHub]_vars

\* the validator: validate_rate on one value
InitValidate ==
    /\ snapshot = EmptySnapshot
    /\ history = <<>>
    /\ stats = InitStats
    /\ clock = 1
    /\ pre = NoPre
    /\ prevRun = NoCall
    /\ lastRun = NoCall
    /\ rateCall = NoCall
    /\ valCall \in {[kind |-> "pending", rate |-> r] : r \in RateInputs}
    /\ sched = InitSched
    /\ req = NoCall
    /\ inflight = EmptyDict

NextValidate == ValidateRate

SpecValidate == InitValidate /\ [][NextValidate]_vars

----------------------------------------------------------------------------
(* Properties of run_update (specification Spec)                           *)

Ran == lastRun.kind = "run_update"

\* what the client called in the last run answered
LastCg == CoinGeckoFetch(lastRun.cgResp)

LastEr == ExchangeRateFetch(lastRun.erResp)

Fails(fetch) == fetch.kind = "raise" /\ fetch.error = "ApiRequestError"

EmptyOrFails(fetch) == Fails(fetch) \/ (fetch.kind = "return" /\ fetch.rates = <<>>)

\* the merged map of the last run: what the called clients returned, the later
\* client overwriting the earlier one
LastMerged ==
    OUpdate(IF lastRun.source # "exchangerate" /\ LastCg.kind = "return"
                THEN LastCg.rates ELSE <<>>,
            IF lastRun.source # "coingecko" /\ LastEr.kind = "return"
                THEN LastEr.rates ELSE <<>>)

LastValidKeys ==
    {LastMerged[i][1] : i \in {j \in DOMAIN LastMerged : validate_rate(LastMerged[j][2])}}

\* the run was restricted to one source and that source failed
ScopedFailure ==
    \/ lastRun.source = "coingecko" /\ Fails(LastCg)
    \/ lastRun.source = "exchangerate" /\ Fails(LastEr)

ScopedErrorText == IF lastRun.source = "coingecko" THEN ErrText(LastCg) ELSE ErrText(LastEr)

\* C1 (as claimed): a second run with the same source and the same non-empty,
\* valid upstream map reports every pair as updated and none as new
C1_IdempotentRerun ==
    ( /\ Ran
      /\ prevRun.kind = "run_update"
      /\ prevRun.success /\ prevRun.sameSource /\ prevRun.sameResponses
      /\ lastRun.result.success
      /\ LastMerged # <<>>
      /\ \A i \in DOMAIN LastMerged : validate_rate(LastMerged[i][2]) )
    => /\ lastRun.result.updated_pairs = Len(LastMerged)
       /\ lastRun.result.new_pairs = 0

\* C2 (as claimed): an accepted pair counts as updated exactly when its key was
\* in the Snapshot loaded at the start of the run, and as new otherwise
C2_UpdatedIffPreexisting ==
    (Ran /\ lastRun.result.success)
    => /\ lastRun.result.updated_pairs =
            Cardinality(LastValidKeys \cap DOMAIN pre.snapshot.pairs)
       /\ lastRun.result.new_pairs =
            Cardinality(LastValidKeys \ DOMAIN pre.snapshot.pairs)

\* C3 (as claimed): the ApiRequestError of the one requested source reaches the
\* caller of run_update as an exception, and no Snapshot write happens
C3_ScopedErrorPropagates ==
    (Ran /\ ScopedFailure) => (lastRun.outcome = "raise" /\ snapshot = pre.snapshot)

\* C3 (amended): the ApiRequestError of the one requested source aborts the run:
\* nothing is written to Snapshot or History, the failure is counted, and
\* run_update returns a result with success = false that carries the error text
C3_ScopedErrorAborts ==
    (Ran /\ ScopedFailure)
    => /\ lastRun.outcome = "return"
       /\ lastRun.result.success = FALSE
       /\ lastRun.result.message = "update error: " \o ScopedErrorText
       /\ snapshot = pre.snapshot
       /\ history = pre.history
       /\ stats.failed_updates = pre.stats.failed_updates + 1

C3_Witness ==
    /\ Ran /\ ScopedFailure
    /\ lastRun.source = "coingecko"
    /\ pre.snapshot.pairs # EmptyDict

\* an exception leaves the try block of the last run: the failure of the one
\* requested source, a non-API exception of the fiat client, or a failed write
\* of rates.json
BodyRaises ==
    \/ ScopedFailure
    \/ lastRun.source # "coingecko" /\ LastEr.kind = "raise" /\ ~Fails(LastEr)
    \/ lastRun.saveFails

RaisedText ==
    IF ScopedFailure THEN ScopedErrorText
    ELSE IF lastRun.source # "coingecko" /\ LastEr.kind = "raise" /\ ~Fails(LastEr)
        THEN ErrText(LastEr)
    ELSE "cannot write rates.json"

\* C4: every run_update call returns a result; an exception raised during the
\* run is counted in failed_updates, recorded in last_error and turned into a
\* result with success = false that carries the exception text
C4_AlwaysReturnsResult ==
    Ran => /\ lastRun.outcome = "return"
           /\ BodyRaises =>
                /\ lastRun.result.success = FALSE
                /\ lastRun.result.message = "update error: " \o RaisedText
                /\ stats.failed_updates = pre.stats.failed_updates + 1
                /\ stats.last_error = <<RaisedText>>

C4_Witness ==
    /\ Ran /\ lastRun.saveFails
    /\ lastRun.outcome = "return"
    /\ lastRun.result.success = FALSE

\* C5: when every source of run_update("all") returns an empty map or fails with
\* ApiRequestError, the result is a failure with updated_pairs = 0 and the
\* persisted Snapshot is what it was before the call
C5_EmptySourcesNoMutation ==
    (Ran /\ lastRun.source = "all" /\ EmptyOrFails(LastCg) /\ EmptyOrFails(LastEr))
    => /\ lastRun.result.success = FALSE
       /\ "updated_pairs" \in DOMAIN lastRun.result
       /\ lastRun.result.updated_pairs = 0
       /\ snapshot = pre.snapshot

C5_Witness ==
    /\ Ran /\ lastRun.source = "all"
    /\ LastCg.kind = "return" /\ LastCg.rates = <<>>
    /\ Fails(LastEr)
    /\ pre.snapshot.pairs # EmptyDict
    /\ snapshot = pre.snapshot

----------------------------------------------------------------------------
(* Properties of validate_rate (specification SpecValidate)                *)

\* n * 10^s >= d and n * 10^s <= d, for positive n and d
RECURSIVE ScaledAtLeast(_, _, _)
ScaledAtLeast(n, d, s) ==
    IF s < 0 THEN FloorDivPow10(n, -s) >= d
    ELSE IF n >= d THEN TRUE
    ELSE IF s = 0 THEN FALSE
    ELSE ScaledAtLeast(n * 10, d, s - 1)

RECURSIVE ScaledAtMost(_, _, _)
ScaledAtMost(n, d, s) ==
    IF s < 0 THEN FloorDivPow10(n - 1, -s) < d
    ELSE IF n > d THEN FALSE
    ELSE IF s = 0 THEN TRUE
    ELSE ScaledAtMost(n * 10, d, s - 1)

\* 10^-8 <= (n / d) * 10^e <= 10^9
InRange(v) ==
    /\ v.n > 0
    /\ ScaledAtLeast(v.n, v.d, v.e + 8)
    /\ ScaledAtMost(v.n, v.d, v.e - 9)

Validated == valCall.kind = "validate_rate"

\* C6: validate_rate accepts a numeric rate (an int or a float; Python counts
\* True and False as the ints 1 and 0) if and only if 1e-8 <= rate <= 1e9,
\* both bounds included: exactly 1e-8 and exactly 1e9 are accepted, 9.9e-9,
\* 1.1e9, NaN, +inf, -inf and every non-numeric value are rejected.
C6_ValidateRateRange ==
    Validated =>
        LET v == valCall.rate IN
        /\ valCall.result = (v.k \in {"num", "bool"} /\ InRange(v))
        /\ v \in {Num(1, 1, -8), Num(1, 1, 9)} => valCall.result
        /\ v \in {Num(99, 1, -10), Num(11, 1, 8),
                  Num(1000000001, 1, 0), PyNaN, PyInf, PyNegInf, PyStr, PyNone}
              => ~valCall.result

\* validate_rate has accepted a rate of exactly 1e-8
C6_Witness ==
    /\ Validated
    /\ valCall.rate = MIN_RATE_VALUE
    /\ valCall.result

----------------------------------------------------------------------------
(* Properties of get_rate (specification SpecRate)                         *)

Resolved == rateCall.kind = "get_rate"

\* the codes of the call after upper-casing, and the pairs it reads
RFrom == Upper(rateCall.from)

RTo == Upper(rateCall.to)

Recognized(code) == code \in RegisteredCurrencies

Stored(key) == key \in DOMAIN snapshot.pairs

StoredQuote(key) == snapshot.pairs[key]

\* a call on two distinct recognized currencies
DistinctCall == Resolved /\ Recognized(RFrom) /\ Recognized(RTo) /\ RFrom # RTo

\* the outcome is the inverse of the stored quote q: rate 1 / q.rate, q's updated_at
IsInverseOf(outcome, q) ==
    /\ outcome.kind = "return"
    /\ DOMAIN outcome.value = {"rate", "updated_at"}
    /\ NumMul(outcome.value.rate, q.rate) = Num(1, 1, 0)
    /\ outcome.value.updated_at = q.updated_at

\* u is the larger of the strings a and b
IsLarger(u, a, b) == u \in {a, b} /\ ~StrLess(u, a) /\ ~StrLess(u, b)

BridgeStored == Stored(PairKey(RFrom, "USD")) /\ Stored(PairKey("USD", RTo))

\* C7: get_rate(A, B), A # B, tries the direct pair, then the inverse pair,
\* then the USD bridge, and the first that applies wins: a stored A_B is
\* returned unmodified whatever else is stored, and with no A_B but a stored
\* B_A (of positive rate) the inverse result is returned even when a bridge
\* exists too.
C7_ResolverPrecedence ==
    DistinctCall =>
        /\ Stored(PairKey(RFrom, RTo))
              => rateCall.outcome = Return(StoredQuote(PairKey(RFrom, RTo)))
        /\ (/\ ~Stored(PairKey(RFrom, RTo))
            /\ Stored(PairKey(RTo, RFrom))
            /\ StoredQuote(PairKey(RTo, RFrom)).rate.n > 0)
              => IsInverseOf(rateCall.outcome, StoredQuote(PairKey(RTo, RFrom)))

\* a call that found both the inverse pair and a bridge, and no direct pair
C7_Witness ==
    /\ DistinctCall
    /\ ~Stored(PairKey(RFrom, RTo))
    /\ Stored(PairKey(RTo, RFrom))
    /\ StoredQuote(PairKey(RTo, RFrom)).rate.n > 0
    /\ BridgeStored
    /\ rateCall.outcome.kind = "return"

\* C8: for every recognized currency X, get_rate(X, X) returns rate 1.0
\* whatever rates.json holds, an X_X entry with another rate included.
C8_IdentityIsOne ==
    (Resolved /\ Recognized(RFrom) /\ RFrom = RTo) =>
        /\ rateCall.outcome.kind = "return"
        /\ rateCall.outcome.value.rate = Num(1, 1, 0)

\* get_rate(X, X) has answered while rates.json held X_X with a rate other than 1.0
C8_Witness ==
    /\ Resolved /\ Recognized(RFrom) /\ RFrom = RTo
    /\ Stored(PairKey(RFrom, RFrom))
    /\ StoredQuote(PairKey(RFrom, RFrom)).rate # Num(1, 1, 0)
    /\ rateCall.outcome.kind = "return"

\* C9: for distinct recognized A and B, with A_B stored at a (positive) rate r
\* and no B_A stored, get_rate(B, A) returns rate 1 / r and the updated_at of
\* the stored A_B quote.
C9_InverseConsistency ==
    (/\ DistinctCall
     /\ Stored(PairKey(RTo, RFrom))
     /\ ~Stored(PairKey(RFrom, RTo))
     /\ StoredQuote(PairKey(RTo, RFrom)).rate.n > 0)
        => LET q == StoredQuote(PairKey(RTo, RFrom)) IN
           /\ IsInverseOf(rateCall.outcome, q)
           /\ q.rate = Num(2, 1, 0) => rateCall.outcome.value.rate = Num(5, 1, -1)

\* get_rate(B, A) has answered from a stored A_B of rate 2.0, no B_A stored
C9_Witness ==
    /\ DistinctCall
    /\ Stored(PairKey(RTo, RFrom))
    /\ ~Stored(PairKey(RFrom, RTo))
    /\ StoredQuote(PairKey(RTo, RFrom)).rate = Num(2, 1, 0)
    /\ rateCall.outcome.kind = "return"

\* C10: for distinct recognized A and B, neither of them USD, with A_USD and
\* USD_B stored and neither A_B nor B_A, get_rate(A, B) returns the product of
\* the two rates (2.0 and 3.0 give 6.0) and the larger of the two updated_at
\* strings; with A or B equal to USD and neither A_B nor B_A stored no bridge
\* is built and the call ends in RateUnavailableError.
C10_BridgeCorrectness ==
    (DistinctCall /\ ~Stored(PairKey(RFrom, RTo)) /\ ~Stored(PairKey(RTo, RFrom))) =>
        /\ (RFrom # "USD" /\ RTo # "USD" /\ BridgeStored)
              => LET a == StoredQuote(PairKey(RFrom, "USD"))
                     b == StoredQuote(PairKey("USD", RTo))
                 IN  /\ rateCall.outcome.kind = "return"
                     /\ rateCall.outcome.value.rate = NumMul(a.rate, b.rate)
                     /\ (a.rate = Num(2, 1, 0) /\ b.rate = Num(3, 1, 0))
                           => rateCall.outcome.value.rate = Num(6, 1, 0)
                     /\ IsLarger(rateCall.outcome.value.updated_at,
                                 a.updated_at, b.updated_at)
        /\ (RFrom = "USD" \/ RTo = "USD")
              => rateCall.outcome = Raise("RateUnavailableError", RFrom, RTo)

\* a bridge of 2.0 and 3.0 whose second quote carries the larger updated_at
C10_Witness ==
    /\ DistinctCall
    /\ RFrom # "USD" /\ RTo # "USD"
    /\ ~Stored(PairKey(RFrom, RTo)) /\ ~Stored(PairKey(RTo, RFrom))
    /\ BridgeStored
    /\ StoredQuote(PairKey(RFrom, "USD")).rate = Num(2, 1, 0)
    /\ StoredQuote(PairKey("USD", RTo)).rate = Num(3, 1, 0)
    /\ StrLess(StoredQuote(PairKey(RFrom, "USD")).updated_at,
               StoredQuote(PairKey("USD", RTo)).updated_at)
    /\ rateCall.outcome.kind = "return"
    /\ rateCall.outcome.value.rate = Num(6, 1, 0)

\* C11: for distinct recognized A and B, when rates.json holds neither A_B nor
\* B_A nor (with A and B both other than USD) the two bridge pairs, get_rate(A, B)
\* raises RateUnavailableError with from_currency A and to_currency B.
C11_UnresolvablePair ==
    (/\ DistinctCall
     /\ ~Stored(PairKey(RFrom, RTo))
     /\ ~Stored(PairKey(RTo, RFrom))
     /\ ~(RFrom # "USD" /\ RTo # "USD" /\ BridgeStored))
        => /\ rateCall.outcome.kind = "raise"
           /\ rateCall.outcome.error = "RateUnavailableError"
           /\ rateCall.outcome.a = RFrom
           /\ rateCall.outcome.b = RTo

\* an unresolvable call made while rates.json held other pairs, one bridge leg included
C11_Witness ==
    /\ DistinctCall
    /\ RFrom # "USD" /\ RTo # "USD"
    /\ ~Stored(PairKey(RFrom, RTo))
    /\ ~Stored(PairKey(RTo, RFrom))
    /\ Stored(PairKey(RFrom, "USD"))
    /\ ~Stored(PairKey("USD", RTo))
    /\ rateCall.outcome.kind = "raise"

----------------------------------------------------------------------------
(* Properties of get_rate among update runs (specification SpecHub)        *)

\* C12: get_rate is a pure read: whatever its arguments and its outcome, the
\* step starts no update run and no fetch (lastRun and clock keep the record of
\* the last run) and leaves rates.json, the History and the UpdaterStats as
\* they were.
C12_GetRateIsPureRead ==
    [][rateCall' # rateCall => UNCHANGED <<snapshot, history, stats, lastRun, clock>>]_vars

\* get_rate has failed after update runs that left a History and counted updates
C12_Witness ==
    /\ Resolved
    /\ rateCall.outcome.kind = "raise"
    /\ history # <<>>
    /\ stats.total_updates > 0
    /\ snapshot.pairs # EmptyDict

----------------------------------------------------------------------------
(* Input validation of get_rate (specification SpecRate)                   *)

\* the code, once surrounding whitespace is trimmed, is in the currency registry
RecognizedTrimmed(code) == Strip(code) \in RegisteredCurrencies

\* C13 as stated: an argument that is not a recognized currency code makes
\* get_rate fail with InvalidCurrencyCodeError for that code, the from code
\* being checked first, whatever rates.json holds and also when from == to;
\* CurrencyNotFoundError is never the outcome.
C13_InvalidCodeOnly ==
    Resolved =>
        /\ ~Recognized(RFrom)
              => rateCall.outcome = Raise("InvalidCurrencyCodeError", RFrom, "")
        /\ (Recognized(RFrom) /\ ~Recognized(RTo))
              => rateCall.outcome = Raise("InvalidCurrencyCodeError", RTo, "")
        /\ ~(rateCall.outcome.kind = "raise"
             /\ rateCall.outcome.error = "CurrencyNotFoundError")

\* C13, amended: both codes are validated, from first, on their trimmed form,
\* and a code that is not recognized even when trimmed ends the call in
\* InvalidCurrencyCodeError for it; then both are looked up in the registry as
\* typed, from first, and a registered code padded with whitespace ends the
\* call in CurrencyNotFoundError for it.  All of this precedes the read of
\* rates.json and the from == to short-circuit.
C13_ValidationPrecedesLookup ==
    Resolved =>
        IF ~RecognizedTrimmed(RFrom)
            THEN rateCall.outcome = Raise("InvalidCurrencyCodeError", RFrom, "")
        ELSE IF ~RecognizedTrimmed(RTo)
            THEN rateCall.outcome = Raise("InvalidCurrencyCodeError", RTo, "")
        ELSE IF ~Recognized(RFrom)
            THEN rateCall.outcome = Raise("CurrencyNotFoundError", RFrom, "")
        ELSE IF ~Recognized(RTo)
            THEN rateCall.outcome = Raise("CurrencyNotFoundError", RTo, "")
        ELSE rateCall.outcome.kind = "raise"
                => rateCall.outcome.error \in {"RateUnavailableError", "ZeroDivisionError"}

\* get_rate(X, X) on an unregistered X has failed while rates.json held pairs
C13_Witness ==
    /\ Resolved
    /\ RFrom = RTo
    /\ ~RecognizedTrimmed(RFrom)
    /\ rateCall.outcome = Raise("InvalidCurrencyCodeError", RFrom, "")
    /\ snapshot.pairs # EmptyDict

----------------------------------------------------------------------------
(* Properties of the History (specification SpecHistory)                   *)

\* the records of the last run: they carry the instant of the run
AddedByLastRun == SelectSeq(history, LAMBDA r : r.timestamp = ZIso(clock - 1))

\* C14: after any sequence of update runs the History holds at most
\* HISTORY_MAX_RECORDS records, and what survives a run is the most recently
\* appended records in insertion order: a suffix of the History before the run
\* followed by the records of the run, older records being dropped only as far
\* as the cap requires.
C14_HistoryRetention ==
    /\ Len(history) <= HISTORY_MAX_RECORDS
    /\ Ran =>
          LET old == pre.history
              n == Len(history) - Len(AddedByLastRun)
              k == Len(old) - n
          IN  /\ k >= 0
              /\ SubSeq(history, 1, n) = SubSeq(old, k + 1, Len(old))
              /\ k > 0 => Len(history) = HISTORY_MAX_RECORDS

----------------------------------------------------------------------------
(* Properties of the scheduler (specification SpecScheduler)               *)

\* C15: stop() sets the cancellation flag and then waits in join for the worker
\* to exit or for the timeout; its steps leave every worker thread where it is
\* (no forced kill).  While the flag is set a worker enters no further
\* iteration of its loop, hence starts no scheduled update beyond the iteration
\* it is in, and if the flag stays set the worker eventually exits.
C15_StopIsCooperative ==
    /\ [][(sched.stop_pc = "idle" /\ sched'.stop_pc = "join") => sched'.stop_event]_vars
    /\ [][sched'.stop_pc # sched.stop_pc
            => \A w \in DOMAIN sched.threads : sched'.threads[w] = sched.threads[w]]_vars
    /\ [][sched.stop_event
            => \A w \in DOMAIN sched.threads :
                  ~(sched.threads[w] = "test" /\ sched'.threads[w] = "run_pending")]_vars
    /\ \A w \in 1 .. MaxStarts :
          (w \in DOMAIN sched.threads /\ sched.stop_event)
              ~> (~sched.stop_event
                  \/ (w \in DOMAIN sched.threads /\ sched.threads[w] = "done"))

\* stop() gave up waiting while the worker was in a scheduled update; the
\* worker finished the update and then left its loop
C15_Witness ==
    /\ sched.stop_event
    /\ sched.last_join = "timeout"
    /\ sched.scheduled_updates > 0
    /\ sched.threads[1] = "done"

\* the worker threads whose _run_scheduler has not returned
Alive == {w \in DOMAIN sched.threads : sched.threads[w] # "done"}

\* C26: at most one worker loop of the scheduler is alive at any time, for any
\* sequence of start() and stop() calls; when stop() returns after its join
\* timeout while the worker is inside run_update, a following start() does not
\* leave the old worker running beside the new one.
C26_SingleWorker == Cardinality(Alive) <= 1

----------------------------------------------------------------------------
(* Properties of run_update, continued (specification Spec)                *)

ReturnsRates(fetch) == fetch.kind = "return" /\ fetch.rates # <<>>

\* in a run over all sources one client raised ApiRequestError and the other
\* returned a non-empty map
OneSourceDown ==
    /\ Ran
    /\ lastRun.source = "all"
    /\ \/ Fails(LastCg) /\ ReturnsRates(LastEr)
       \/ Fails(LastEr) /\ ReturnsRates(LastCg)

\* the map of the source that answered
SurvivingRates == IF Fails(LastCg) THEN LastEr.rates ELSE LastCg.rates

\* C16: in run_update("all"), when one source raises ApiRequestError and the
\* other returns a non-empty map, the failure is absorbed (no failed update is
\* counted, run_update returns), the valid pairs of the other source are in
\* rates.json with the fetched rates, and the result has success = true.  The
\* write of rates.json is taken to succeed: its failure is a failure of the
\* run, not of a source.
C16_SkipAndContinue ==
    (OneSourceDown /\ ~lastRun.saveFails) =>
        /\ lastRun.outcome = "return"
        /\ lastRun.result.success
        /\ stats.failed_updates = pre.stats.failed_updates
        /\ \A i \in DOMAIN SurvivingRates :
              validate_rate(SurvivingRates[i][2]) =>
                  /\ SurvivingRates[i][1] \in DOMAIN snapshot.pairs
                  /\ snapshot.pairs[SurvivingRates[i][1]].rate = SurvivingRates[i][2]
                  /\ snapshot.pairs[SurvivingRates[i][1]].updated_at = UtcIso(clock - 1)

\* CoinGecko failed, ExchangeRate-API answered, and EUR_USD went into rates.json
C16_Witness ==
    /\ OneSourceDown
    /\ Fails(LastCg)
    /\ lastRun.result.success
    /\ EUR_USD \in DOMAIN snapshot.pairs
    /\ EUR_USD \notin DOMAIN pre.snapshot.pairs


\* the keys of the merged map of the last run whose rate validate_rate rejects
LastInvalidKeys ==
    {LastMerged[i][1] : i \in {j \in DOMAIN LastMerged : ~validate_rate(LastMerged[j][2])}}

\* the last run reached the per-pair loop with a rate that fails validate_rate
SkipsInvalidQuote ==
    /\ Ran
    /\ ReachesLoop(lastRun.source, lastRun.cgResp, lastRun.erResp)
    /\ LastInvalidKeys # {}

\* C18: in run_update a fetched pair whose rate fails validate_rate is not
\* written (rates.json keeps the previous quote of the key, or no entry), gets
\* no history record and is counted in neither updated_pairs nor new_pairs;
\* every valid pair of the same run is written with its fetched rate and the
\* run returns success = true and counts a successful update.  The write of
\* rates.json is taken to succeed.
C18_InvalidQuoteSkipped ==
    (SkipsInvalidQuote /\ ~lastRun.saveFails) =>
        /\ lastRun.outcome = "return"
        /\ lastRun.result.success
        /\ stats.successful_updates = pre.stats.successful_updates + 1
        /\ stats.failed_updates = pre.stats.failed_updates
        /\ lastRun.result.updated_pairs + lastRun.result.new_pairs
              = Cardinality(LastValidKeys)
        /\ \A k \in LastInvalidKeys :
              /\ IF k \in DOMAIN pre.snapshot.pairs
                 THEN k \in DOMAIN snapshot.pairs
                      /\ snapshot.pairs[k] = pre.snapshot.pairs[k]
                 ELSE k \notin DOMAIN snapshot.pairs
              /\ \A i \in DOMAIN AddedByLastRun :
                    PairKey(AddedByLastRun[i].from_currency,
                            AddedByLastRun[i].to_currency) # k
        /\ \A i \in DOMAIN LastMerged :
              validate_rate(LastMerged[i][2]) =>
                  /\ LastMerged[i][1] \in DOMAIN snapshot.pairs
                  /\ snapshot.pairs[LastMerged[i][1]].rate = LastMerged[i][2]
                  /\ snapshot.pairs[LastMerged[i][1]].updated_at = UtcIso(clock - 1)

\* CoinGecko answered bitcoin = 0 while rates.json held BTC_USD = 50000 and
\* ExchangeRate-API answered EUR: the old BTC_USD quote is kept and EUR_USD is
\* written
C18_Witness ==
    /\ SkipsInvalidQuote
    /\ ~lastRun.saveFails
    /\ BTC_USD \in LastInvalidKeys
    /\ BTC_USD \in DOMAIN pre.snapshot.pairs
    /\ snapshot.pairs[BTC_USD].rate = Num(50000, 1, 0)
    /\ EUR_USD \in LastValidKeys
    /\ snapshot.pairs[EUR_USD].updated_at = UtcIso(clock - 1)


\* the rate rates.json held for a key when the last run loaded it
PreviousRate(k) ==
    IF k \in DOMAIN pre.snapshot.pairs THEN pre.snapshot.pairs[k].rate ELSE PyNone

\* the records the last run appended for a key
RecordsOf(k) ==
    SelectSeq(AddedByLastRun,
              LAMBDA r : PairKey(r.from_currency, r.to_currency) = k)

\* change_pct is |rate - previous_rate| / previous_rate * 100, stated without
\* the division
IsChangePct(change_pct, rate, previous_rate) ==
    /\ change_pct.k = "num"
    /\ NumMul(change_pct, previous_rate)
          = NumMul(NumAbs(NumSub(rate, previous_rate)), Num(100, 1, 0))

\* the last run reached the per-pair loop and history.json could be written
AppendsHistory ==
    /\ Ran
    /\ ReachesLoop(lastRun.source, lastRun.cgResp, lastRun.erResp)
    /\ ~lastRun.histFails

\* C19: a run of run_update appends one history record for every pair it
\* accepts and none besides; the record carries the fetched rate,
\* meta.previous_rate is the rate rates.json held for the key when the run
\* loaded it (None if the key was absent) and meta.change_pct is
\* |rate - previous_rate| / previous_rate * 100 for a positive previous rate,
\* None when there was no previous rate.  The append is best effort, so the
\* write of history.json is taken to succeed; the arithmetic is exact.
C19_HistoryRecordMeta ==
    AppendsHistory =>
        /\ Len(AddedByLastRun) = Cardinality(LastValidKeys)
        /\ \A i \in DOMAIN LastMerged :
              validate_rate(LastMerged[i][2]) =>
                  LET k == LastMerged[i][1]
                      recs == RecordsOf(k)
                  IN  /\ Len(recs) = 1
                      /\ recs[1].rate = LastMerged[i][2]
                      /\ recs[1].meta.previous_rate = PreviousRate(k)
                      /\ PreviousRate(k) = PyNone => recs[1].meta.change_pct = PyNone
                      /\ PyGreater(PreviousRate(k), Num(0, 1, 0)) =>
                            IsChangePct(recs[1].meta.change_pct, LastMerged[i][2],
                                        PreviousRate(k))

\* rates.json held BTC_USD = 50000, CoinGecko answered 51000: the record of the
\* run has previous_rate 50000 and change_pct 2
C19_Witness ==
    /\ AppendsHistory
    /\ BTC_USD \in LastValidKeys
    /\ Len(RecordsOf(BTC_USD)) = 1
    /\ RecordsOf(BTC_USD)[1].rate = Num(51000, 1, 0)
    /\ RecordsOf(BTC_USD)[1].meta.previous_rate = Num(50000, 1, 0)
    /\ RecordsOf(BTC_USD)[1].meta.change_pct = Num(2, 1, 0)

----------------------------------------------------------------------------
(* Properties of _make_request (specification SpecRequest)                 *)

Calling == req.kind = "make_request"

\* the failures the function is meant to retry
Transient(res) ==
    \/ res.kind = "exception" /\ res.error \in {"Timeout", "ConnectionError"}
    \/ res.kind = "response" /\ res.status_code = 429

\* a status other than 200 and 429, or a 200 whose body is not JSON
Fatal(res) ==
    /\ res.kind = "response"
    /\ \/ res.status_code \notin {200, 429}
       \/ res.status_code = 200 /\ ~res.json

\* C20: one call of _make_request issues at most RETRY_ATTEMPTS GETs and
\* terminates, returning the body of a 200 response or raising ApiRequestError;
\* after a timeout, a connection failure or a 429 the loop goes on while
\* attempts are left and raises ApiRequestError when none is; any other
\* non-200 status and a 200 whose body is not JSON end the call at once with
\* ApiRequestError.
C20_BoundedRetries ==
    /\ [](Calling =>
            /\ req.gets <= RETRY_ATTEMPTS
            /\ req.gets = Len(req.results)
            /\ req.pc = "returned" =>
                  /\ req.results[req.gets].kind = "response"
                  /\ req.results[req.gets].status_code = 200
                  /\ req.results[req.gets].json
                  /\ req.body = req.results[req.gets].body
            /\ req.pc = "raised" => req.error = "ApiRequestError"
            /\ \A i \in DOMAIN req.results :
                  /\ (Transient(req.results[i]) /\ i = req.gets) =>
                        IF i < RETRY_ATTEMPTS THEN req.pc = "loop" ELSE req.pc = "raised"
                  /\ Fatal(req.results[i]) => (i = req.gets /\ req.pc = "raised"))
    /\ <>(Calling /\ req.pc \in {"returned", "raised"})

\* C21: in _make_request the delay slept before the retry that follows failed
\* attempt number `attempt` (0-based) is RETRY_DELAY * (attempt + 1), whether
\* the attempt failed by timeout, by connection failure or with HTTP 429.
\* req.results[i] is the outcome of attempt i - 1 and req.sleeps[i] the delay
\* slept after it.
C21_LinearBackoff ==
    Calling =>
        \A i \in DOMAIN req.sleeps :
            Transient(req.results[i]) => req.sleeps[i] = RETRY_DELAY * ((i - 1) + 1)

\* the last run called the client and its fetch_rates returned
CgReturned == Ran /\ lastRun.source # "exchangerate" /\ LastCg.kind = "return"

ErReturned == Ran /\ lastRun.source # "coingecko" /\ LastEr.kind = "return"

\* the rate of a returned pair is the number of units of TO per 1 unit of FROM,
\* given that the provider quoted `quoted` units of FROM per 1 unit of TO
IsUnitsOfToPerFrom(rate, quoted) ==
    /\ rate.k = "num"
    /\ NumMul(rate, quoted) = Num(1, 1, 0)

\* C22: every pair FROM_TO a client's fetch_rates returns carries the number of
\* units of TO per 1 unit of FROM.  CoinGecko answers the price of a coin in
\* USD, which is the rate of <coin>_USD as it stands.  ExchangeRate-API answers
\* conversion_rates[FIAT] = units of FIAT per 1 unit of the base, so the rate
\* of FIAT_<base> is its reciprocal, and <base>_<base> is 1.
C22_RateDirection ==
    /\ CgReturned =>
          \A i \in DOMAIN lastRun.cgResp.data :
              LET crypto_id == lastRun.cgResp.data[i][1]
                  k == PairKey(id_to_code[crypto_id], "USD")
              IN  \A j \in DOMAIN LastCg.rates :
                      LastCg.rates[j][1] = k =>
                          LastCg.rates[j][2] = lastRun.cgResp.data[i][2].usd
    /\ ErReturned =>
          \A j \in DOMAIN LastEr.rates :
              LET k == LastEr.rates[j][1]
                  rate == LastEr.rates[j][2]
              IN  /\ SplitTo(k) = lastRun.erResp.data.base_code
                  /\ IF SplitFrom(k) = SplitTo(k)
                     THEN rate = Num(1, 1, 0)
                     ELSE IsUnitsOfToPerFrom(rate,
                              lastRun.erResp.data.conversion_rates[SplitFrom(k)])

----------------------------------------------------------------------------
(* Properties of validate_rates (specification SpecAudit)                  *)

Audited == valCall.kind = "validate_rates"

Reported(k, issue) == \E i \in valCall.issues : i.pair = k /\ i.issue = issue

\* the quote has an updated_at text that is no date
Unparsable(q) ==
    /\ "updated_at" \in DOMAIN q
    /\ fromisoformat(q.updated_at).kind = "raise"

\* the quote has a date more than 2 * UPDATE_INTERVAL seconds before the call
Stale(q) ==
    /\ "updated_at" \in DOMAIN q
    /\ fromisoformat(q.updated_at).kind = "return"
    /\ total_seconds(clock, fromisoformat(q.updated_at).t) > 2 * UPDATE_INTERVAL

\* C23: validate_rates reports, for each pair of rates.json whose source is not
\* "test", an issue if the rate fails validate_rate, otherwise an issue if
\* updated_at is older than 2 * UPDATE_INTERVAL, otherwise an issue if
\* updated_at cannot be parsed; a pair of source "test" is never reported; and
\* the call changes neither rates.json, nor the History, nor the statistics.
C23_ValidateRatesReport ==
    /\ [](Audited =>
            \A k \in DOMAIN snapshot.pairs :
                LET q == snapshot.pairs[k] IN
                IF q.source = "test"
                THEN \A i \in valCall.issues : i.pair # k
                ELSE /\ ~validate_rate(q.rate) => Reported(k, "invalid rate")
                     /\ (validate_rate(q.rate) /\ Stale(q)) => Reported(k, "stale")
                     /\ (validate_rate(q.rate) /\ Unparsable(q))
                            => Reported(k, "bad updated_at"))
    /\ [][valCall' # valCall => UNCHANGED <<snapshot, history, stats>>]_vars

\* the last run returned the failure of lines 94-100: no source gave a rate
NoRatesReturned ==
    /\ Ran
    /\ ~BodyRaises
    /\ ~lastRun.result.success

\* C29: with sequential runs, total_updates = successful_updates +
\* failed_updates in every state and no counter decreases; a run that persists
\* rates.json adds 1 to total_updates and to successful_updates, a run that
\* ends in the exception handler adds 1 to total_updates and to failed_updates,
\* and a run that returns the "no rates from any source" failure changes no
\* counter and leaves last_error as it was.
C29_StatsAccounting ==
    /\ stats.total_updates = stats.successful_updates + stats.failed_updates
    /\ Ran =>
          /\ stats.total_updates >= pre.stats.total_updates
          /\ stats.successful_updates >= pre.stats.successful_updates
          /\ stats.failed_updates >= pre.stats.failed_updates
          /\ lastRun.result.success =>
                /\ stats.total_updates = pre.stats.total_updates + 1
                /\ stats.successful_updates = pre.stats.successful_updates + 1
                /\ stats.failed_updates = pre.stats.failed_updates
          /\ BodyRaises =>
                /\ stats.total_updates = pre.stats.total_updates + 1
                /\ stats.failed_updates = pre.stats.failed_updates + 1
                /\ stats.successful_updates = pre.stats.successful_updates
          /\ NoRatesReturned =>
                /\ lastRun.result.message = "no rates from any source"
                /\ stats = pre.stats

\* a run with no rate from any source, after a run that had ended in the
\* handler: one failed update is counted and last_error is still the first one
C29_Witness ==
    /\ NoRatesReturned
    /\ stats.total_updates = 1
    /\ stats.failed_updates = 1
    /\ stats.last_error # <<>>

\* C30: a failed run changes no persisted state: whenever run_update returns
\* success = false, the failing write of rates.json after the per-pair loop
\* included, rates.json and the History are what they were before the call, so
\* the History holds no record of a rate that did not reach rates.json.
C30_FailedRunPersistsNothing ==
    (Ran /\ ~lastRun.result.success) =>
        /\ snapshot = pre.snapshot
        /\ history = pre.history

----------------------------------------------------------------------------
(* Properties of overlapping runs (specification SpecOverlap)              *)

\* the run_update executions that have loaded rates.json and not yet returned
InProgress == {c \in DOMAIN inflight : inflight[c].pc = "loaded"}

\* C24: at most one run_update execution is in progress in the process at any
\* time: a run started from the command line and a run started by the
\* scheduler on the same RatesUpdater never overlap.
C24_OneRunAtATime == Cardinality(InProgress) <= 1

\* both executions have returned success and one began while the other was in
\* progress
BothDoneOverlapped ==
    /\ DOMAIN inflight = {Cli, Worker(1)}
    /\ \A c \in DOMAIN inflight :
          inflight[c].pc = "done" /\ inflight[c].success /\ inflight[c].overlapped

\* C25: when two run_update executions on the same rates.json interleave and
\* both return success, rates.json holds, for every pair key accepted by either
\* of them, a quote written by one of the two runs.
C25_NoLostUpdate ==
    BothDoneOverlapped =>
        \A c \in DOMAIN inflight :
            \A k \in inflight[c].accepted :
                /\ k \in DOMAIN snapshot.pairs
                /\ \E b \in DOMAIN inflight :
                      snapshot.pairs[k].updated_at = inflight[b].stamp

----------------------------------------------------------------------------
(* Properties of the quotes the updater stores (specification SpecFromEmpty) *)

\* C27: starting from an empty rates.json, after any sequence of run_update
\* calls on the two configured sources (the fiat provider answering with base
\* USD) every key of rates.json ends in _USD, so no USD_X with X other than
\* USD is stored; hence get_rate(A, B) on distinct recognized currencies other
\* than USD finds no bridge and raises RateUnavailableError.
C27_NoUsdBridgeFromSources ==
    /\ \A k \in DOMAIN snapshot.pairs : SplitTo(k) = "USD"
    /\ (DistinctCall /\ RFrom # "USD" /\ RTo # "USD") =>
          /\ ~BridgeStored
          /\ rateCall.outcome = Raise("RateUnavailableError", RFrom, RTo)

\* get_rate(EUR, BTC) or get_rate(BTC, EUR) was refused while rates.json held
\* both BTC_USD and EUR_USD, written by the update runs
C27_Witness ==
    /\ DistinctCall
    /\ RFrom # "USD" /\ RTo # "USD"
    /\ Stored(BTC_USD) /\ Stored(EUR_USD)
    /\ rateCall.outcome.kind = "raise"
    /\ rateCall.outcome.error = "RateUnavailableError"

\* C28: starting from a rates.json that is empty or holds only rates that pass
\* validate_rate, after any sequence of run_update calls every stored rate r
\* is a number with MIN_RATE_VALUE <= r <= MAX_RATE_VALUE and a run removes no
\* pair key; hence the inverse path of get_rate never divides by zero.
C28_StoredRatesInRange ==
    /\ \A k \in DOMAIN snapshot.pairs :
          /\ snapshot.pairs[k].rate.k = "num"
          /\ InRange(snapshot.pairs[k].rate)
    /\ Ran => DOMAIN pre.snapshot.pairs \subseteq DOMAIN snapshot.pairs
    /\ Resolved =>
          ~(rateCall.outcome.kind = "raise" /\ rateCall.outcome.error = "ZeroDivisionError")

\* the last run was answered bitcoin = 0 and skipped it; get_rate(USD, BTC) then
\* took the inverse of the BTC_USD quote that was kept
C28_Witness ==
    /\ Ran
    /\ BTC_USD \in LastInvalidKeys
    /\ Resolved
    /\ RFrom = "USD" /\ RTo = "BTC"
    /\ Stored(BTC_USD)
    /\ IsInverseOf(rateCall.outcome, StoredQuote(BTC_USD))

----------------------------------------------------------------------------
(* Properties of the merge (specification SpecMerge)                       *)

Merged == lastRun.kind = "merge"

\* the rate a fetched map holds for a key
RateIn(rates, key) == (CHOOSE item \in {rates[i] : i \in DOMAIN rates} : item[1] = key)[2]

\* C17: the maps of the two sources are merged CoinGecko first, ExchangeRate-API
\* second, so for a pair key that both maps hold with different rates the rate
\* written to rates.json is the one of ExchangeRate-API.
C17_LastWriterWins ==
    Merged =>
        \A key \in OKeys(lastRun.crypto_rates) \cap OKeys(lastRun.fiat_rates) :
            /\ key \in DOMAIN snapshot.pairs
            /\ snapshot.pairs[key].rate = RateIn(lastRun.fiat_rates, key)

\* both maps held BTC_USD, at 2.0 from CoinGecko and 3.0 from ExchangeRate-API
C17_Witness ==
    /\ Merged
    /\ BTC_USD \in OKeys(lastRun.crypto_rates) \cap OKeys(lastRun.fiat_rates)
    /\ RateIn(lastRun.crypto_rates, BTC_USD) = Num(2, 1, 0)
    /\ RateIn(lastRun.fiat_rates, BTC_USD) = Num(3, 1, 0)
    /\ snapshot.pairs[BTC_USD].rate = Num(3, 1, 0)

====
